---- MODULE Spec2Model ----
(***************************************************************************)
(* Model of the loop engine of minoru-jp/skeleton                          *)
(* (src/loop_engine_lib/loop_engine/internal.py and loop_engine.py):       *)
(* the three-state StateMachine, the event/action/reactor registries, the  *)
(* StepSlots, the ResultRecorder, the InterruptController, the task        *)
(* control and the orchestrator coroutine _loop_engine.                    *)
(*                                                                         *)
(* Seven specifications share the variables and the operations:             *)
(*   StateSpec   the StateMachine and the EventRegistry driven through     *)
(*               their interfaces by arbitrary calls;                      *)
(*   RegistrySpec  the action and reactor registries driven likewise;      *)
(*   ControllerSpec  the InterruptController driven likewise;              *)
(*   ReaderSpec  EngineSpec with a driver that calls the reader's cleanup; *)
(*   Spec        the handle built by make_loop_engine_handle(), wired as   *)
(*               the source wires it;                                      *)
(*   EngineSpec  the coroutine _loop_engine run with its parameters bound  *)
(*               as its signature declares them, on a LoopControl built    *)
(*               after the registries were filled, with a circuit of the   *)
(*               registered actions that has no IRQ block;                 *)
(*   IrqSpec     the same with a circuit that has the IRQ block and a      *)
(*               driver that pauses and resumes.                           *)
(***************************************************************************)
EXTENDS Integers, Sequences, FiniteSets, TLC

(***************************************************************************)
(* Bounds of the model.                                                    *)
(***************************************************************************)
\* handlers are identified by 1..NumHandlers
NumHandlers == 1
\* at most this many events hold a handler in the registry
MaxRegistered == 2
\* at most this many actions are appended to the circuit
MaxActions == 3
\* at most this many of them through the handle and in the runs of ReaderSpec
MaxHandleActions == 1
\* at most this many of them when the circuit has the IRQ block
MaxIrqActions == 2
\* at most this many registered actions carry a name that the namespace of
\* the circuit lacks
MaxUnboundNames == 1
\* the circuit body is run at most this many times
MaxIter == 2

(***************************************************************************)
(* setup_loop_event: the nine event names.                                 *)
(***************************************************************************)
START == "on_start"
PAUSE == "on_pause"
RESUME == "on_resume"
STOP_NORMALLY == "on_end"
STOP_CANCELED == "on_stop"
STOP_HANDLER_ERROR == "on_handler_exception"
STOP_CIRCUIT_ERROR == "on_circuit_exception"
CLEANUP == "on_closed"
LOOP_RESULT == "on_result"

ALL_EVENTS ==
    { START, PAUSE, RESUME, STOP_NORMALLY,
      STOP_CANCELED, STOP_HANDLER_ERROR, STOP_CIRCUIT_ERROR,
      CLEANUP, LOOP_RESULT }

is_valid_event(name) == name \in ALL_EVENTS

\* a name outside the nine, for calls with an undefined event
UndefinedEvent == "on_undefined"

Handlers == 1..NumHandlers

(***************************************************************************)
(* setup_state: the three state tokens and the guards.                     *)
(***************************************************************************)
LOAD == "LOAD"
ACTIVE == "ACTIVE"
TERMINATED == "TERMINATED"

ALL == { LOAD, ACTIVE, TERMINATED }

\* a value that is none of the three tokens
UnknownToken == "UNKNOWN"

\* the class hierarchy of _StateError: TerminatedError(InvalidStateError)
IsInstance(err, cls) ==
    \/ err = cls
    \/ err = "TerminatedError" /\ cls = "InvalidStateError"

\* _validate_state_value: "ok", or the error it raises
validate_state_value(s) ==
    IF s \in ALL THEN "ok" ELSE "UnknownStateError"

\* require_state without the TERMINATED case: one error for every mismatch
require_state_flat(expected, cur) ==
    IF validate_state_value(expected) # "ok"
    THEN validate_state_value(expected)
    ELSE IF expected # cur THEN "InvalidStateError" ELSE "ok"

\* _require_state(expected) evaluated in state cur: "ok", or the error raised
require_state(expected, cur) ==
    IF validate_state_value(expected) # "ok"
    THEN validate_state_value(expected)
    ELSE IF expected # cur
         THEN IF cur = TERMINATED THEN "TerminatedError" ELSE "InvalidStateError"
         ELSE "ok"

\* The callables handed to the StateMachine: "ok" returns, "raise" raises an
\* ordinary Exception, "None" is the absent function of transit_state.
FnKinds == { "ok", "raise" }

\* maintain_state without _require_state: fn runs in every state
maintain_state_unguarded(expected, fn, cur) ==
    [err |-> IF fn = "raise" THEN "Exception" ELSE "ok", ran |-> TRUE]

\* maintain_state(expected, fn) in state cur:
\*   err  "ok" or the error that leaves the call
\*   ran  whether fn was called
maintain_state(expected, fn, cur) ==
    LET r == require_state(expected, cur) IN
    IF r # "ok"
    THEN [err |-> r, ran |-> FALSE]
    ELSE [err |-> IF fn = "raise" THEN "Exception" ELSE "ok", ran |-> TRUE]

\* legal_edge without the source test of the edge to TERMINATED
legal_edge_any_source(cur, to) ==
    LET to_active == cur = LOAD /\ to = ACTIVE
        to_terminal == to = TERMINATED
    IN to_active \/ to_terminal

\* The edge test of transit_state_with.
legal_edge(cur, to) ==
    LET to_active == cur = LOAD /\ to = ACTIVE
        to_terminal == cur = ACTIVE /\ to = TERMINATED
    IN to_active \/ to_terminal

\* transit_state_with that assigns the state before it runs fn
transit_state_with_advance_first(to, fn, cur) ==
    IF validate_state_value(to) # "ok"
    THEN [err |-> validate_state_value(to), ran |-> FALSE, next |-> cur]
    ELSE IF ~legal_edge(cur, to)
    THEN [err |-> "AttributeError", ran |-> FALSE, next |-> cur]
    ELSE IF fn # "None"
    THEN LET m == maintain_state(to, fn, to) IN
         [err |-> m.err, ran |-> m.ran, next |-> to]
    ELSE [err |-> "ok", ran |-> FALSE, next |-> cur]

\* transit_state_with(to, fn) in state cur:
\*   err   "ok" or the error that leaves the call
\*   ran   whether fn was called
\*   next  the state after the call
\* On an illegal edge the code evaluates StateError.InvalidStateError on the
\* Protocol class, which only annotates that name: the raise statement ends
\* in AttributeError.  With fn = None the else branch returns before the
\* assignment _state = to.
transit_state_with(to, fn, cur) ==
    IF validate_state_value(to) # "ok"
    THEN [err |-> validate_state_value(to), ran |-> FALSE, next |-> cur]
    ELSE IF ~legal_edge(cur, to)
    THEN [err |-> "AttributeError", ran |-> FALSE, next |-> cur]
    ELSE IF fn # "None"
    THEN LET m == maintain_state(cur, fn, cur) IN
         [err |-> m.err, ran |-> m.ran,
          next |-> IF m.err = "ok" THEN to ELSE cur]
    ELSE [err |-> "ok", ran |-> FALSE, next |-> cur]

\* transit_state(to)
transit_state(to, cur) == transit_state_with(to, "None", cur)


(***************************************************************************)
(* setup_step_slot, setup_loop_result: the sentinel objects.  Results of   *)
(* handlers and actions are positive integers; the sentinels are not.      *)
(***************************************************************************)
UNSET == 0
None == -1
PENDING_RESULT == -2
NO_RESULT == -3

\* What the user's callables return: the handler h registered for an event
\* returns a value of its own, and so does the i-th action.
EventNo(event) ==
    CASE event = START -> 1
      [] event = PAUSE -> 2
      [] event = RESUME -> 3
      [] event = STOP_NORMALLY -> 4
      [] event = STOP_CANCELED -> 5
      [] event = STOP_HANDLER_ERROR -> 6
      [] event = STOP_CIRCUIT_ERROR -> 7
      [] event = CLEANUP -> 8
      [] event = LOOP_RESULT -> 9
HandlerReturn(event, h) == 10 * EventNo(event) + h
ActionReturn(i) == 100 + i

\* setup_step_slot: the slot as constructed, set_prev_result and cleanup
NewStepSlot(unset_name) == [prev_proc |-> unset_name, prev_result |-> UNSET]
set_prev_result(slot, tag, result) == [prev_proc |-> tag, prev_result |-> result]

\* setup_loop_result: the recorder as constructed
NewLoopResult ==
    [loop_result |-> PENDING_RESULT, last_process |-> "None",
     circuit_error |-> "None", event_reactor_error |-> "None",
     handler_error |-> "None", internal_error |-> "None"]

ErrorSlots == { "circuit_error", "event_reactor_error", "handler_error", "internal_error" }

\* setup_loop_interrupt: the controller as constructed (asyncio.Event() is unset)
NewLoopInterrupt ==
    [mode |-> "RUNNING", event |-> FALSE,
     pause_requested |-> FALSE, resume_event_scheduled |-> FALSE]

\* resume that records the intent but does not set the readiness signal
resume_without_signal(q) == [q EXCEPT !.resume_event_scheduled = TRUE]

\* request_pause that pauses on the spot: the mode changes with the request
request_pause_immediate(q) == [q EXCEPT !.pause_requested = TRUE, !.mode = "PAUSE"]

\* resume that also withdraws a pending pause request
resume_cancels_pause(q) ==
    [q EXCEPT !.resume_event_scheduled = TRUE, !.event = TRUE,
              !.pause_requested = FALSE]

\* setup_loop_interrupt.request_pause / resume
request_pause(q) == [q EXCEPT !.pause_requested = TRUE]
resume(q) == [q EXCEPT !.resume_event_scheduled = TRUE, !.event = TRUE]

\* perform_resume_event that leaves the resume intent scheduled
perform_resume_event_begin_keeps_intent(q) == q

\* perform_resume_event: `_resume_event_scheduled = False` before the RESUME event
perform_resume_event_begin(q) == [q EXCEPT !.resume_event_scheduled = FALSE]

\* consume_pause_request that leaves the readiness signal as it is
consume_pause_request_end_keeps_signal(q) == [q EXCEPT !.mode = "PAUSE"]

\* consume_pause_request: `_pause_requested = False` before the PAUSE event
consume_pause_request_begin(q) == [q EXCEPT !.pause_requested = FALSE]

\* consume_pause_request: `_event.clear(); _mode = _PAUSE` after the PAUSE event
consume_pause_request_end(q) == [q EXCEPT !.event = FALSE, !.mode = "PAUSE"]

\* perform_resume_event: `_mode = _RUNNING` after the RESUME event
perform_resume_event_end(q) == [q EXCEPT !.mode = "RUNNING"]

\* setup_loop_control: the control built from the registry evh; the handlers
\* are copied (dict(evh.get_all_handlers())) when the control is built
setup_loop_control(evh) ==
    [built |-> TRUE, handlers |-> evh,
     event_reactor |-> "None", action_reactor |-> "None", released |-> FALSE]

NoControl ==
    [built |-> FALSE, handlers |-> [e \in ALL_EVENTS |-> 0],
     event_reactor |-> "None", action_reactor |-> "None", released |-> FALSE]

\* setup_reactor_registry: the default factories
DefaultFactories == [event |-> "default", action |-> "default"]

\* setup_task_control: no task yet
NoTask == [st |-> "None", must_cancel |-> FALSE, result |-> "pending"]

\* the coroutine _loop_engine before it exists
NoEngine == [pc |-> "idle", site |-> "none", exc |-> "none", ai |-> 0, iter |-> 0]

\* what a run has done so far
NoHistory ==
    [processed |-> << >>,    \* events handed to process_event, in order
     invoked |-> << >>,      \* <<event, handler>> of every handler invocation
     acts |-> << >>,         \* actions called in the current iteration
     start_done |-> FALSE,   \* process_event(START) has returned
     failed_action |-> 0,    \* the action that raised an ordinary exception
     failed_event |-> "none",\* the event whose processing raised an error
     broke |-> FALSE,        \* Break was raised in the circuit
     name_error |-> FALSE,   \* a line of the circuit could not evaluate a name
     cancelled |-> FALSE,    \* the circuit was left by CancelledError
     stopped_in_pause |-> FALSE] \* stop() came while wait_resume() blocked in PAUSE mode

VARIABLES
    current_state,     \* setup_state._state
    event_handlers,    \* setup_event_handler_registry._event_handlers
    actions,           \* setup_action_registry._linear_actions_in_circuit (name, notify)
    factories,         \* setup_reactor_registry: the two reactor factories
    cleaned,           \* the registries whose dict cleanup() has set to None
    control,           \* setup_loop_control: handler copy, reactors
    ev_step,           \* the event StepSlot
    act_step,          \* the action StepSlot
    res,               \* setup_loop_result: the ResultRecorder
    irq,               \* setup_loop_interrupt: the InterruptController
    task,              \* setup_task_control._task
    wiring,            \* the circuit given to the handle, and _loop_engine's arguments
    eng,               \* the position of the coroutine _loop_engine
    hist,              \* what the run has done so far
    last               \* the last interface call and how it ended

vars == << current_state, event_handlers, actions, factories, cleaned, control, ev_step,
           act_step, res, irq, task, wiring, eng, hist, last >>

registries == << event_handlers, actions, factories, cleaned >>
slots == << ev_step, act_step >>
run_vars == << control, ev_step, act_step, res, irq, task, wiring, eng, hist >>

NoCall == [op |-> "none", arg |-> "none", fn |-> "none", err |-> "ok", ran |-> FALSE]

Registered(h) == { e \in ALL_EVENTS : h[e] # 0 }

\* The circuit handed to make_loop_engine_handle is a callable.  "function"
\* is a plain function; "loglike" is a callable object that also exposes
\* .logger and .role.  wiring.irq tells whether the circuit has the IRQ block.
CircuitKinds == { "function", "loglike" }

InitCommon ==
    /\ current_state = LOAD
    /\ event_handlers = [e \in ALL_EVENTS |-> 0]
    /\ actions = << >>
    /\ factories = DefaultFactories
    /\ cleaned = { }
    /\ ev_step = NewStepSlot("<unset>")
    /\ act_step = NewStepSlot(0)
    /\ res = NewLoopResult
    /\ irq = NewLoopInterrupt
    /\ task = NoTask
    /\ eng = NoEngine
    /\ hist = NoHistory
    /\ last = NoCall

\* StateSpec: the components alone
Init ==
    /\ InitCommon
    /\ control = NoControl
    /\ wiring = [static_circuit |-> "function", irq |-> FALSE,
                 log |-> "none", circuit |-> "none"]

(***************************************************************************)
(* Interface calls on the StateMachine.                                    *)
(***************************************************************************)
CallMaintainState(s, fn) ==
    LET m == maintain_state(s, fn, current_state) IN
    /\ last' = [op |-> "maintain_state", arg |-> s, fn |-> fn,
                err |-> m.err, ran |-> m.ran]
    /\ UNCHANGED << current_state, registries, run_vars >>

CallTransitStateWith(to, fn) ==
    LET t == transit_state_with(to, fn, current_state) IN
    /\ current_state' = t.next
    /\ last' = [op |-> "transit_state_with", arg |-> to, fn |-> fn,
                err |-> t.err, ran |-> t.ran]
    /\ UNCHANGED << registries, run_vars >>

CallTransitState(to) ==
    LET t == transit_state(to, current_state) IN
    /\ current_state' = t.next
    /\ last' = [op |-> "transit_state", arg |-> to, fn |-> "None",
                err |-> t.err, ran |-> t.ran]
    /\ UNCHANGED << registries, run_vars >>

(***************************************************************************)
(* setup_event_handler_registry.set_event_handler                          *)
(***************************************************************************)
\* the registry after set_event_handler(event, handler), and the error.
\* gone: cleanup() has set the dict to None, and the item assignment of
\* add_phase, which maintain_state runs in LOAD, raises TypeError.
set_event_handler(event, handler, reg, gone, cur) ==
    IF ~is_valid_event(event)
    THEN [err |-> "ValueError", reg |-> reg]
    ELSE LET m == maintain_state(LOAD, "ok", cur) IN
         IF m.ran /\ gone
         THEN [err |-> "TypeError", reg |-> reg]
         ELSE [err |-> m.err,
               reg |-> IF m.ran THEN [reg EXCEPT ![event] = handler] ELSE reg]

\* cleanup() of a registry that keeps a dict (name "evh" or "act"): clear()
\* and then None.  It is not gated by the state.  A second call finds None,
\* which has no clear().
\*   err   "ok" or the error that leaves the call
\*   gone  the registries whose dict is None after the call
dict_cleanup(name, gone) ==
    IF name \in gone
    THEN [err |-> "AttributeError", gone |-> gone]
    ELSE [err |-> "ok", gone |-> gone \cup { name }]

\* setup_event_handler_registry.cleanup()
CallEventRegistryCleanup ==
    LET r == dict_cleanup("evh", cleaned) IN
    /\ event_handlers' = IF r.err = "ok" THEN [e \in ALL_EVENTS |-> 0]
                                          ELSE event_handlers
    /\ cleaned' = r.gone
    /\ last' = [op |-> "cleanup", arg |-> "evh", fn |-> "none",
                err |-> r.err, ran |-> r.err = "ok"]
    /\ UNCHANGED << current_state, actions, factories, run_vars >>

CallSetEventHandler(event, handler) ==
    LET r == set_event_handler(event, handler, event_handlers,
                               "evh" \in cleaned, current_state) IN
    /\ Cardinality(Registered(r.reg)) <= MaxRegistered
    /\ event_handlers' = r.reg
    /\ last' = [op |-> "set_event_handler", arg |-> event, fn |-> "none",
                err |-> r.err, ran |-> r.err = "ok"]
    /\ UNCHANGED << current_state, actions, factories, cleaned, run_vars >>

StateNext ==
    \/ \E s \in ALL \cup {UnknownToken}, fn \in FnKinds : CallMaintainState(s, fn)
    \/ \E to \in ALL \cup {UnknownToken}, fn \in FnKinds \cup {"None"} :
          CallTransitStateWith(to, fn)
    \/ \E to \in ALL \cup {UnknownToken} : CallTransitState(to)
    \/ \E e \in ALL_EVENTS \cup {UndefinedEvent}, h \in Handlers :
          CallSetEventHandler(e, h)
    \/ CallEventRegistryCleanup

StateSpec == Init /\ [][StateNext]_vars

(***************************************************************************)
(* Configuration in LOAD: the registries.                                  *)
(***************************************************************************)
\* the events for which the handle has a set_on_<event> method
HandleEvents ==
    { START, STOP_NORMALLY, STOP_CANCELED, CLEANUP, LOOP_RESULT, PAUSE, RESUME }

\* set_on_<event>(fn) of the handle, set_event_handler of the registry
SetEventHandler(event, handler) ==
    LET r == set_event_handler(event, handler, event_handlers,
                               "evh" \in cleaned, current_state) IN
    /\ Cardinality(Registered(r.reg)) <= MaxRegistered
    /\ event_handlers' = r.reg
    /\ UNCHANGED << current_state, actions, factories, cleaned, run_vars, last >>

\* The names given to append_action.  The registry keeps str(name), and the
\* templates write it unquoted into the circuit (`reactor({action_raw_name})`,
\* `step.set_prev_result({action_raw_name}, r)`), where it is evaluated as
\* an expression in the namespace of the circuit:
\*   "identifier"  a name the namespace lacks ('tick', 'A'): NameError;
\*   "literal"     text that evaluates ('1', "'tick'", a label such as
\*                 'a_action'): the slot gets its value.
NameKinds == { "identifier", "literal" }

\* the entry (fn, str(name), notify_reactor) of the action registry
NewAction(name, notify_reactor) == [name |-> name, notify |-> notify_reactor]

\* append_action without the state gate
append_action_ungated(name, notify_reactor, acts, gone, cur) ==
    IF gone
    THEN [err |-> "TypeError", acts |-> acts]
    ELSE [err |-> "ok", acts |-> Append(acts, NewAction(name, notify_reactor))]

\* setup_action_registry.append_action: the registry after the call.
\* gone: cleanup() has set the dict to None, and len() of it in
\* _label_action_by_index, which maintain_state runs in LOAD, raises TypeError.
append_action(name, notify_reactor, acts, gone, cur) ==
    LET m == maintain_state(LOAD, "ok", cur) IN
    IF m.ran /\ gone
    THEN [err |-> "TypeError", acts |-> acts]
    ELSE [err |-> m.err,
          acts |-> IF m.ran THEN Append(acts, NewAction(name, notify_reactor))
                   ELSE acts]

AppendAction(name, notify_reactor, max_actions) ==
    LET r == append_action(name, notify_reactor, actions, "act" \in cleaned,
                           current_state) IN
    /\ Len(r.acts) <= max_actions
    /\ Cardinality({ j \in 1..Len(r.acts) : r.acts[j].name = "identifier" })
          <= MaxUnboundNames
    /\ actions' = r.acts
    /\ UNCHANGED << current_state, event_handlers, factories, cleaned, run_vars, last >>

\* setup_reactor_registry.set_event_reactor_factory / set_action_reactor_factory
set_reactor_factory(which, fac, cur) ==
    LET m == maintain_state(LOAD, "ok", cur) IN
    [err |-> m.err, fac |-> IF m.ran THEN [fac EXCEPT ![which] = "user"] ELSE fac]

SetEventReactorFactory ==
    /\ factories' = set_reactor_factory("event", factories, current_state).fac
    /\ UNCHANGED << current_state, event_handlers, actions, cleaned, run_vars, last >>

SetActionReactorFactory ==
    /\ factories' = set_reactor_factory("action", factories, current_state).fac
    /\ UNCHANGED << current_state, event_handlers, actions, cleaned, run_vars, last >>

(***************************************************************************)
(* RegistrySpec: the action registry and the reactor registry driven by    *)
(* arbitrary calls in every state of the StateMachine, each call recorded  *)
(* in `last` with the error that left it.                                   *)
(***************************************************************************)
\* append_action(name, fn, notify_reactor)
CallAppendAction(name, notify_reactor) ==
    LET r == append_action(name, notify_reactor, actions, "act" \in cleaned,
                           current_state) IN
    /\ Len(r.acts) <= MaxActions
    /\ Cardinality({ j \in 1..Len(r.acts) : r.acts[j].name = "identifier" })
          <= MaxUnboundNames
    /\ actions' = r.acts
    /\ last' = [op |-> "append_action",
                arg |-> IF notify_reactor THEN "notify" ELSE "silent",
                fn |-> "none", err |-> r.err, ran |-> r.err = "ok"]
    /\ UNCHANGED << current_state, event_handlers, factories, cleaned, run_vars >>

\* set_event_reactor_factory (which = "event") / set_action_reactor_factory
CallSetReactorFactory(which) ==
    LET r == set_reactor_factory(which, factories, current_state) IN
    /\ factories' = r.fac
    /\ last' = [op |-> "set_reactor_factory", arg |-> which,
                fn |-> "none", err |-> r.err, ran |-> r.err = "ok"]
    /\ UNCHANGED << current_state, event_handlers, actions, cleaned, run_vars >>

\* setup_action_registry.cleanup()
CallActionRegistryCleanup ==
    LET r == dict_cleanup("act", cleaned) IN
    /\ actions' = IF r.err = "ok" THEN << >> ELSE actions
    /\ cleaned' = r.gone
    /\ last' = [op |-> "cleanup", arg |-> "act", fn |-> "none",
                err |-> r.err, ran |-> r.err = "ok"]
    /\ UNCHANGED << current_state, event_handlers, factories, run_vars >>

\* setup_reactor_registry.cleanup(): both factories become None, in any state
reactor_registry_cleanup(fac) == [event |-> "None", action |-> "None"]

CallReactorRegistryCleanup ==
    /\ factories' = reactor_registry_cleanup(factories)
    /\ last' = [op |-> "cleanup", arg |-> "rr", fn |-> "none",
                err |-> "ok", ran |-> TRUE]
    /\ UNCHANGED << current_state, event_handlers, actions, cleaned, run_vars >>

RegistryNext ==
    \/ \E to \in ALL, fn \in FnKinds : CallTransitStateWith(to, fn)
    \/ \E nm \in NameKinds, n \in BOOLEAN : CallAppendAction(nm, n)
    \/ \E w \in { "event", "action" } : CallSetReactorFactory(w)
    \/ CallActionRegistryCleanup
    \/ CallReactorRegistryCleanup

RegistrySpec == Init /\ [][RegistryNext]_vars

(***************************************************************************)
(* setup_task_control: start and stop.  No call of the handle is gated by   *)
(* where the task stands: start, stop, pause and resume are called by the  *)
(* driver while the task is suspended in an await (or not running), and by *)
(* a handler, a reactor, a factory or an action from inside the task, that *)
(* is between two steps of the model.  task.cancel() on a task that is not *)
(* suspended is kept in must_cancel until its next await that suspends, or *)
(* until the coroutine ends.                                               *)
(***************************************************************************)
Suspended == { "await_reactor", "await_handler", "await_action", "await_resume" }

is_running(tk) == tk.st # "None" /\ tk.st # "done"

\* start that creates the task under a guard on LOAD and leaves the state
\* as it is
task_start_keeps_state(cur, tk) ==
    LET m == maintain_state(LOAD, "ok", cur) IN
    [err |-> m.err, next |-> cur,
     task |-> IF m.ran THEN [st |-> "pending", must_cancel |-> FALSE,
                             result |-> "pending"]
              ELSE tk]

\* start(fn, *args): transit_state_with(ACTIVE, create_task); the task is
\* created while the state is still the old one.  log_arg and circuit_arg
\* are the objects bound to _loop_engine's parameters log and circuit.
task_start(cur, tk) ==
    LET t == transit_state_with(ACTIVE, "ok", cur) IN
    [err |-> t.err, next |-> t.next,
     task |-> IF t.ran THEN [st |-> "pending", must_cancel |-> FALSE,
                             result |-> "pending"]
              ELSE tk]

StartWith(log_arg, circuit_arg) ==
    LET s == task_start(current_state, task) IN
    /\ current_state' = s.next
    /\ task' = s.task
    /\ IF s.err = "ok"
       THEN /\ eng' = [eng EXCEPT !.pc = "created"]
            /\ wiring' = [wiring EXCEPT !.log = log_arg, !.circuit = circuit_arg]
       ELSE UNCHANGED << eng, wiring >>
    /\ UNCHANGED << registries, control, slots, res, irq, hist, last >>

\* make_loop_engine_handle._start_loop_engine: start() of the handle.  The
\* arguments are passed as (circuit_func, _state, _log, ...) to
\* _loop_engine(log, state, circuit, ...): log is bound to the circuit and
\* circuit to the LoopLog object.
HandleStart == StartWith(wiring.static_circuit, "log")

\* The functions that can be handed to _loop_engine as its circuit:
\* "generated" has the six parameters of _CIRCUIT_TEMPLATE, "bound" is the
\* same function with its parameters bound to the tools of control.
CircuitForms == { "generated", "bound" }

\* `while True:` of the circuit has a body: an action or the IRQ block.
\* Without one the source of the circuit is no function at all.
HasBody == Len(actions) > 0 \/ wiring.irq

\* _loop_engine started with its parameters bound as its signature declares,
\* on a circuit of the registered actions
EngineStart ==
    /\ control.built
    /\ HasBody
    /\ \E c \in CircuitForms : StartWith("log", c)

\* the LoopControl is built from the registry as it is now
SetupLoopControl ==
    /\ ~control.built
    /\ current_state = LOAD
    /\ control' = setup_loop_control(event_handlers)
    /\ UNCHANGED << current_state, registries, slots, res, irq, task, wiring,
                    eng, hist, last >>

\* setup_task_control.stop: the task after the call
task_stop(cur, tk) ==
    LET m == maintain_state(ACTIVE, "ok", cur) IN
    IF m.ran /\ is_running(tk) THEN [tk EXCEPT !.must_cancel = TRUE] ELSE tk

Stop ==
    /\ task' = task_stop(current_state, task)
    /\ hist' = IF /\ eng.pc = "await_resume"
                  /\ irq.mode = "PAUSE"
                  /\ ~task.must_cancel
                  /\ task'.must_cancel
               THEN [hist EXCEPT !.stopped_in_pause = TRUE] ELSE hist
    /\ UNCHANGED << current_state, registries, control, slots, res, irq, wiring,
                    eng, last >>

\* pause / resume of the handle are request_pause / resume of the controller
Pause ==
    /\ irq' = request_pause(irq)
    /\ UNCHANGED << current_state, registries, control, slots, res, task, wiring,
                    eng, hist, last >>

Resume ==
    /\ irq' = resume(irq)
    /\ UNCHANGED << current_state, registries, control, slots, res, task, wiring,
                    eng, hist, last >>

(***************************************************************************)
(* _loop_engine: the orchestrator.                                         *)
(*                                                                         *)
(*   eng.pc    where the coroutine stands                                  *)
(*   eng.site  the event of the process_event call it is in                *)
(*   eng.exc   the exception in flight through the finally blocks          *)
(***************************************************************************)
\* InnerRaise with an except clause that catches every exception: any
\* failure in the body of the inner try is diverted to STOP_CANCELED.
InnerRaise_diverts_every_error(r) ==
    [pc |-> "call", site |-> STOP_CANCELED, exc |-> "none"]

\* An exception raised in the body of the inner try: CancelledError goes to
\* the except clause (STOP_CANCELED), anything else stays in flight while
\* the finally block (CLEANUP, LOOP_RESULT) runs.
InnerRaise(r) ==
    IF r = "CancelledError"
    THEN [pc |-> "call", site |-> STOP_CANCELED, exc |-> "none"]
    ELSE [pc |-> "call", site |-> CLEANUP, exc |-> r]

\* An exception leaving the circuit: `except Exception` wraps it as
\* CircuitError; CancelledError is no Exception and passes unwrapped.
CircuitRaise(r) ==
    IF r = "CancelledError" THEN InnerRaise(r) ELSE InnerRaise("CircuitError")

\* Finish with a failure of START swallowed: the run goes on to the circuit.
Finish_start_failure_swallowed(site, r, cur) ==
    CASE site = START -> [pc |-> "setup_action_context", site |-> "none", exc |-> cur]
      [] site = STOP_NORMALLY ->
           IF r = "ok" THEN [pc |-> "call", site |-> CLEANUP, exc |-> "none"]
           ELSE InnerRaise(r)
      [] site = STOP_CANCELED ->
           [pc |-> "call", site |-> CLEANUP, exc |-> IF r = "ok" THEN "none" ELSE r]
      [] site = CLEANUP ->
           IF r = "ok" THEN [pc |-> "call", site |-> LOOP_RESULT, exc |-> cur]
           ELSE [pc |-> "outer_except", site |-> "none", exc |-> r]
      [] site = LOOP_RESULT ->
           IF r = "ok"
           THEN [pc |-> IF cur = "none" THEN "outer_finally" ELSE "outer_except",
                 site |-> "none", exc |-> cur]
           ELSE [pc |-> "outer_except", site |-> "none", exc |-> r]
      [] site = PAUSE ->
           IF r = "ok" THEN [pc |-> "irq_resume", site |-> "none", exc |-> cur]
           ELSE CircuitRaise(r)
      [] site = RESUME ->
           IF r = "ok" THEN [pc |-> "irq_wait", site |-> "none", exc |-> cur]
           ELSE CircuitRaise(r)

\* Where _loop_engine continues when process_event(site) ended with r ("ok" or
\* the exception it raised) while cur was in flight.
Finish(site, r, cur) ==
    CASE site = START ->
           IF r = "ok" THEN [pc |-> "setup_action_context", site |-> "none", exc |-> cur]
           ELSE InnerRaise(r)
      [] site = STOP_NORMALLY ->
           IF r = "ok" THEN [pc |-> "call", site |-> CLEANUP, exc |-> "none"]
           ELSE InnerRaise(r)
      [] site = STOP_CANCELED ->
           [pc |-> "call", site |-> CLEANUP, exc |-> IF r = "ok" THEN "none" ELSE r]
      [] site = CLEANUP ->
           IF r = "ok" THEN [pc |-> "call", site |-> LOOP_RESULT, exc |-> cur]
           ELSE [pc |-> "outer_except", site |-> "none", exc |-> r]
      [] site = LOOP_RESULT ->
           IF r = "ok"
           THEN [pc |-> IF cur = "none" THEN "outer_finally" ELSE "outer_except",
                 site |-> "none", exc |-> cur]
           ELSE [pc |-> "outer_except", site |-> "none", exc |-> r]
      [] site = PAUSE ->
           IF r = "ok" THEN [pc |-> "irq_resume", site |-> "none", exc |-> cur]
           ELSE CircuitRaise(r)
      [] site = RESUME ->
           IF r = "ok" THEN [pc |-> "irq_wait", site |-> "none", exc |-> cur]
           ELSE CircuitRaise(r)

\* EventOutcomes with the event reactor called before the handler lookup
EventOutcomes_reactor_first(ctrl, event, from) ==
    IF from = "call"
    THEN ( IF ctrl.handlers[event] = 0 THEN { "noop" }
           ELSE { "ok", "handler_raise", "handler_suspend" } ) \cup
         ( IF ctrl.event_reactor = "user"
           THEN { "reactor_raise", "reactor_suspend" } ELSE {} )
    ELSE IF from = "await_reactor"
    THEN { "ok", "handler_raise", "handler_suspend", "reactor_raise" }
    ELSE { "ok", "handler_raise" }

\* process_event that goes on to the handler when the reactor has failed
process_event_reactor_failure_ignored(ctrl, slot, event, o) ==
    LET handler == ctrl.handlers[event] IN
    CASE o = "noop" ->
           [r |-> "ok", slot |-> slot, inv |-> FALSE, pc |-> "none"]
      [] o = "reactor_suspend" ->
           [r |-> "wait", slot |-> slot, inv |-> FALSE, pc |-> "await_reactor"]
      [] o = "handler_raise" ->
           [r |-> "EventHandlerError", slot |-> slot, inv |-> TRUE, pc |-> "none"]
      [] o = "handler_suspend" ->
           [r |-> "wait", slot |-> slot, inv |-> TRUE, pc |-> "await_handler"]
      [] o \in { "ok", "reactor_raise" } ->
           [r |-> "ok", slot |-> set_prev_result(slot, event, HandlerReturn(event, handler)),
            inv |-> TRUE, pc |-> "none"]

\* process_event that records the event in the StepSlot before the handler ends
process_event_recorded_early(ctrl, slot, event, o) ==
    LET handler == ctrl.handlers[event] IN
    CASE o = "noop" ->
           [r |-> "ok", slot |-> slot, inv |-> FALSE, pc |-> "none"]
      [] o = "reactor_raise" ->
           [r |-> "EventReactorError", slot |-> slot, inv |-> FALSE, pc |-> "none"]
      [] o = "reactor_suspend" ->
           [r |-> "wait", slot |-> slot, inv |-> FALSE, pc |-> "await_reactor"]
      [] o = "handler_raise" ->
           [r |-> "EventHandlerError", slot |-> set_prev_result(slot, event, UNSET),
            inv |-> TRUE, pc |-> "none"]
      [] o = "handler_suspend" ->
           [r |-> "wait", slot |-> slot, inv |-> TRUE, pc |-> "await_handler"]
      [] o = "ok" ->
           [r |-> "ok", slot |-> set_prev_result(slot, event, HandlerReturn(event, handler)),
            inv |-> TRUE, pc |-> "none"]

\* setup_loop_control.process_event(event) with the reactor and the handler
\* behaving as o says:
\*   r     "ok", the error raised, or "wait" when an await suspends
\*   slot  the event StepSlot afterwards
\*   inv   whether the handler was invoked
\*   pc    where the coroutine waits when r = "wait"
\* from tells where the call stands: "call" at its start, "await_reactor"
\* when the awaited reactor ends, "await_handler" when the awaited handler ends.
EventOutcomes(ctrl, event, from) ==
    IF from = "call" /\ ctrl.handlers[event] = 0 THEN { "noop" }
    ELSE IF from = "call"
    THEN { "ok", "handler_raise", "handler_suspend" } \cup
         ( IF ctrl.event_reactor = "user"
           THEN { "reactor_raise", "reactor_suspend" } ELSE {} )
    ELSE IF from = "await_reactor"
    THEN { "ok", "handler_raise", "handler_suspend", "reactor_raise" }
    ELSE { "ok", "handler_raise" }

process_event(ctrl, slot, event, o) ==
    LET handler == ctrl.handlers[event] IN
    CASE o = "noop" ->
           [r |-> "ok", slot |-> slot, inv |-> FALSE, pc |-> "none"]
      [] o = "reactor_raise" ->
           [r |-> "EventReactorError", slot |-> slot, inv |-> FALSE, pc |-> "none"]
      [] o = "reactor_suspend" ->
           [r |-> "wait", slot |-> slot, inv |-> FALSE, pc |-> "await_reactor"]
      [] o = "handler_raise" ->
           [r |-> "EventHandlerError", slot |-> slot, inv |-> TRUE, pc |-> "none"]
      [] o = "handler_suspend" ->
           [r |-> "wait", slot |-> slot, inv |-> TRUE, pc |-> "await_handler"]
      [] o = "ok" ->
           [r |-> "ok", slot |-> set_prev_result(slot, event, HandlerReturn(event, handler)),
            inv |-> TRUE, pc |-> "none"]

\* EventReturn with the loop result taken from the action StepSlot
EventReturn_action_slot(r, slot, h) ==
    LET f == Finish(eng.site, r, eng.exc) IN
    /\ eng' = [eng EXCEPT !.pc = f.pc, !.site = f.site, !.exc = f.exc]
    /\ ev_step' = slot
    /\ res' = IF eng.site = LOOP_RESULT /\ r = "ok"
              THEN [res EXCEPT !.loop_result = act_step.prev_result] ELSE res
    /\ irq' = IF eng.site = RESUME /\ r = "ok" THEN perform_resume_event_end(irq)
              ELSE IF eng.site = PAUSE /\ r = "ok" THEN consume_pause_request_end(irq)
              ELSE irq
    /\ hist' = IF r # "ok" THEN [h EXCEPT !.failed_event = eng.site]
               ELSE IF eng.site = START THEN [h EXCEPT !.start_done = TRUE]
               ELSE h

\* The coroutine leaves process_event(eng.site) with r: the continuation in
\* _loop_engine (or in consume_pause_request / perform_resume_event, which
\* the circuit awaits) and its assignments.
EventReturn(r, slot, h) ==
    LET f == Finish(eng.site, r, eng.exc) IN
    /\ eng' = [eng EXCEPT !.pc = f.pc, !.site = f.site, !.exc = f.exc]
    /\ ev_step' = slot
    /\ res' = IF eng.site = LOOP_RESULT /\ r = "ok"
              THEN [res EXCEPT !.loop_result = slot.prev_result] ELSE res
    /\ irq' = IF eng.site = RESUME /\ r = "ok" THEN perform_resume_event_end(irq)
              ELSE IF eng.site = PAUSE /\ r = "ok" THEN consume_pause_request_end(irq)
              ELSE irq
    /\ hist' = IF r # "ok" THEN [h EXCEPT !.failed_event = eng.site]
               ELSE IF eng.site = START THEN [h EXCEPT !.start_done = TRUE]
               ELSE h

\* one stretch of process_event, from `from` to its end or its next await
EventStep(from, o) ==
    LET p == process_event(control, ev_step, eng.site, o)
        h0 == IF from = "call"
              THEN [hist EXCEPT !.processed = Append(@, eng.site)] ELSE hist
        h1 == IF p.inv /\ from # "await_handler"
              THEN [h0 EXCEPT !.invoked = Append(@, << eng.site, control.handlers[eng.site] >>)]
              ELSE h0
    IN
    /\ eng.pc = from
    /\ o \in EventOutcomes(control, eng.site, from)
    /\ IF p.r = "wait"
       THEN /\ eng' = [eng EXCEPT !.pc = p.pc]
            /\ hist' = h1
            /\ UNCHANGED << ev_step, res, irq >>
       ELSE EventReturn(p.r, p.slot, h1)
    /\ UNCHANGED << current_state, registries, control, act_step, task, wiring, last >>

ProcessEvent == \E o \in { "noop", "ok", "handler_raise", "handler_suspend",
                            "reactor_raise", "reactor_suspend" } :
                   EventStep("call", o)

ReactorWake ==
    /\ ~task.must_cancel
    /\ \E o \in { "ok", "handler_raise", "handler_suspend", "reactor_raise" } :
          EventStep("await_reactor", o)

HandlerWake ==
    /\ ~task.must_cancel
    /\ \E o \in { "ok", "handler_raise" } : EventStep("await_handler", o)

\* The first step of the task.  A task cancelled before its first step gets
\* CancelledError thrown into the coroutine before its first statement: no
\* try block has been entered and nothing of _loop_engine runs.
TaskFirstStep ==
    /\ eng.pc = "created"
    /\ IF task.must_cancel
       THEN /\ task' = [st |-> "done", must_cancel |-> FALSE, result |-> "cancelled"]
            /\ eng' = [eng EXCEPT !.pc = "done", !.exc = "CancelledError"]
       ELSE /\ task' = [task EXCEPT !.st = "running"]
            /\ eng' = [eng EXCEPT !.pc = "log"]
    /\ UNCHANGED << current_state, registries, control, slots, res, irq, wiring,
                    hist, last >>

\* log.logger.info(...); errors = control.exceptions.errors
\* When log is bound to a plain function, log.logger raises AttributeError
\* before `errors` is assigned; the except clauses of the outer try then
\* evaluate errors.CircuitError and end in UnboundLocalError: no error slot
\* is written and the outer finally runs.
EngineLog ==
    /\ eng.pc = "log"
    /\ eng' = IF wiring.log = "function"
              THEN [eng EXCEPT !.pc = "outer_finally", !.exc = "UnboundLocalError"]
              ELSE [eng EXCEPT !.pc = "setup_event_context"]
    /\ UNCHANGED << current_state, registries, control, slots, res, irq, task,
                    wiring, hist, last >>

\* How a reactor factory ends.  The default action factory reads
\* control.event_context, which LoopControl does not have: AttributeError.
FactoryOutcomes(which, fac) ==
    IF fac[which] = "user" THEN { "ok", "Exception" }
    ELSE IF which = "action" THEN { "AttributeError" }
    ELSE { "ok" }

\* control.setup_event_context(), outside the inner try
SetupEventContext ==
    /\ eng.pc = "setup_event_context"
    /\ \E o \in FactoryOutcomes("event", factories) :
          IF o = "ok"
          THEN /\ control' = [control EXCEPT !.event_reactor = factories.event]
               /\ eng' = [eng EXCEPT !.pc = "call", !.site = START]
          ELSE /\ eng' = [eng EXCEPT !.pc = "outer_except", !.exc = o]
               /\ UNCHANGED control
    /\ UNCHANGED << current_state, registries, slots, res, irq, task, wiring,
                    hist, last >>

\* control.setup_action_context(), in the body of the inner try
SetupActionContext ==
    /\ eng.pc = "setup_action_context"
    /\ \E o \in FactoryOutcomes("action", factories) :
          IF o = "ok"
          THEN /\ control' = [control EXCEPT !.action_reactor = factories.action]
               /\ eng' = [eng EXCEPT !.pc = "circuit_call"]
          ELSE LET f == InnerRaise(o) IN
               /\ eng' = [eng EXCEPT !.pc = f.pc, !.site = f.site, !.exc = f.exc]
               /\ UNCHANGED control
    /\ UNCHANGED << current_state, registries, slots, res, irq, task, wiring,
                    hist, last >>

(***************************************************************************)
(* The circuit (_CIRCUIT_TEMPLATE, _ACTION_TEMPLATE, _IRQ_TEMPLATE):       *)
(*   def name(reactor, context, step, irq, ev_proc, signal):               *)
(*       try:                                                              *)
(*           while True:                                                   *)
(*               [reactor(name)]; r = [await] action(context)              *)
(*               step.set_prev_result(name, r)        for each action      *)
(*               the IRQ block                                             *)
(*       except signal.Break: pass                                         *)
(*                                                                         *)
(* The source that generate_circuit_code returns is not this function: its *)
(* except clause stands at the column of `while`, not of `try`, and with   *)
(* no action and no IRQ block the `while True:` has no body.  exec() of it *)
(* in _compile raises SyntaxError (IndentationError for the empty loop),   *)
(* so start_with_compile never starts a run (compile_generated).           *)
(*                                                                         *)
(* The circuits that _loop_engine is given (CircuitForms) are therefore    *)
(*   "generated"  the function above, written out with the except clause   *)
(*                under its try as loop_engine_manual.py lists it: it has  *)
(*                six parameters, and circuit(control) raises TypeError;   *)
(*   "bound"      the same function with its six parameters bound to the   *)
(*                tools of control, so that circuit(control) runs it.      *)
(* The positions eng.pc below are those of a "bound" circuit.              *)
(***************************************************************************)
\* generate_circuit_code(name, actions, irq) handed to _compile: the error
\* that exec() of the generated source raises.
compile_generated(n_actions, irq_flag) ==
    IF n_actions = 0 /\ ~irq_flag THEN "IndentationError" ELSE "SyntaxError"

\* start_with_compile(irq) of the handle: the error that leaves it.  The
\* handle gives build_action_namespace() (label -> function) to
\* generate_circuit_code, which unpacks each value as (action, raw_name,
\* notify_reactor): TypeError with any action registered.  The next
\* argument of _compile is _loop_control.exceptions.signals.Break: once
\* control.cleanup() has run (released), exceptions is None and reading
\* .signals raises AttributeError before _compile is entered.  The arguments
\* of _start_loop_engine are evaluated first, so no task is created.
start_with_compile(acts, irq_flag, released) ==
    IF Len(acts) > 0 THEN "TypeError"
    ELSE IF released THEN "AttributeError"
    ELSE compile_generated(0, irq_flag)

StartWithCompile(irq_flag) ==
    /\ last' = [op |-> "start_with_compile", arg |-> "none", fn |-> "none",
                err |-> start_with_compile(actions, irq_flag, control.released),
                ran |-> FALSE]
    /\ UNCHANGED << current_state, registries, run_vars >>

\* the position after the last action of an iteration
AfterActions == IF wiring.irq THEN "irq_pause" ELSE "iter_end"

\* the first position of an iteration; a circuit without an action has the
\* IRQ block (HasBody)
FirstPosition == IF Len(actions) > 0 THEN "action" ELSE "irq_pause"

\* CircuitExit without `except signal.Break`: Break is wrapped like an error.
CircuitExit_break_uncaught(kind) ==
    CASE kind = "break" -> CircuitRaise("Break")
      [] kind = "raise" -> CircuitRaise("Exception")
      [] kind = "cancel" -> CircuitRaise("CancelledError")

\* how a circuit is left whose loop stands in `try:` with `except signal.Break:
\* pass`, as the static circuits of loop_engine_manual.py are written (the
\* text _CIRCUIT_TEMPLATE emits has the `except` at the column of `while` and
\* does not compile): Break ends it cleanly, an Exception is wrapped
CircuitExit(kind) ==
    CASE kind = "break" -> [pc |-> "call", site |-> STOP_NORMALLY, exc |-> "none"]
      [] kind = "raise" -> CircuitRaise("Exception")
      [] kind = "cancel" -> CircuitRaise("CancelledError")

GoTo(f) == eng' = [eng EXCEPT !.pc = f.pc, !.site = f.site, !.exc = f.exc]

\* circuit_tmp = circuit(control): a LoopLog object is not callable and a
\* function of six parameters misses five arguments; the TypeError is
\* wrapped as CircuitError before any line of the circuit runs
CircuitCall ==
    /\ eng.pc = "circuit_call"
    /\ IF wiring.circuit \in { "log", "generated" }
       THEN GoTo(CircuitRaise("TypeError"))
       ELSE eng' = [eng EXCEPT !.pc = FirstPosition, !.ai = 1, !.iter = 1]
    /\ UNCHANGED << current_state, registries, control, slots, res, irq, task,
                    wiring, hist, last >>

\* how the i-th action of the circuit can go, reactor notification included.
\* With notify_reactor the first line is `reactor({action_raw_name})`: a
\* name the namespace lacks raises NameError while the argument is
\* evaluated, before the reactor and the action are called.
ActionOutcomes(i) ==
    IF actions[i].notify /\ actions[i].name = "identifier"
    THEN { "name_error" }
    ELSE { "ok", "raise", "break", "suspend" } \cup
         ( IF actions[i].notify /\ control.action_reactor = "user"
           THEN { "reactor_raise", "reactor_break" } ELSE {} )

\* the action returned: `step.set_prev_result({action_raw_name}, r)`, then
\* the next line.  The name is evaluated in the namespace of the circuit: one
\* that it lacks raises NameError, which leaves the circuit as an Exception
\* with the slot untouched.
ActionDone(i, h) ==
    IF actions[i].name = "identifier"
    THEN /\ GoTo(CircuitExit("raise"))
         /\ hist' = [h EXCEPT !.name_error = TRUE]
         /\ UNCHANGED act_step
    ELSE /\ act_step' = set_prev_result(act_step, i, ActionReturn(i))
         /\ eng' = IF i < Len(actions)
                   THEN [eng EXCEPT !.pc = "action", !.ai = i + 1]
                   ELSE [eng EXCEPT !.pc = AfterActions]
         /\ hist' = h

\* the action (or its reactor) ended the circuit
ActionEnds(kind, h) ==
    /\ GoTo(CircuitExit(kind))
    /\ hist' = h
    /\ UNCHANGED act_step

CircuitAction ==
    /\ eng.pc = "action"
    /\ LET i == eng.ai
           called == [hist EXCEPT !.acts = Append(@, i)]
       IN \E o \in ActionOutcomes(i) :
            CASE o = "name_error" ->
                   ActionEnds("raise", [hist EXCEPT !.name_error = TRUE])
              [] o = "reactor_raise" -> ActionEnds("raise", hist)
              [] o = "reactor_break" -> ActionEnds("break", [hist EXCEPT !.broke = TRUE])
              [] o = "ok" -> ActionDone(i, called)
              [] o = "raise" -> ActionEnds("raise", [called EXCEPT !.failed_action = i])
              [] o = "break" -> ActionEnds("break", [called EXCEPT !.broke = TRUE])
              [] o = "suspend" ->
                   /\ eng' = [eng EXCEPT !.pc = "await_action"]
                   /\ hist' = called
                   /\ UNCHANGED act_step
    /\ UNCHANGED << current_state, registries, control, ev_step, res, irq, task,
                    wiring, last >>

\* the awaited action ends
ActionWake ==
    /\ eng.pc = "await_action"
    /\ ~task.must_cancel
    /\ \E o \in { "ok", "raise", "break" } :
         CASE o = "ok" -> ActionDone(eng.ai, hist)
           [] o = "raise" -> ActionEnds("raise", [hist EXCEPT !.failed_action = eng.ai])
           [] o = "break" -> ActionEnds("break", [hist EXCEPT !.broke = TRUE])
    /\ UNCHANGED << current_state, registries, control, ev_step, res, irq, task,
                    wiring, last >>

\* `while True`: the next iteration
CircuitLoop ==
    /\ eng.pc = "iter_end"
    /\ eng.iter < MaxIter
    /\ eng' = [eng EXCEPT !.pc = FirstPosition, !.ai = 1, !.iter = @ + 1]
    /\ hist' = [hist EXCEPT !.acts = << >>]
    /\ UNCHANGED << current_state, registries, control, slots, res, irq, task,
                    wiring, last >>

\* _IRQ_TEMPLATE: `if irq.pause_requested: await irq.consume_pause_result(ev_proc)`.
\* The controller has consume_pause_request and no consume_pause_result:
\* the call raises AttributeError, which leaves the circuit.
IrqPause ==
    /\ eng.pc = "irq_pause"
    /\ IF irq.pause_requested
       THEN GoTo(CircuitExit("raise"))
       ELSE eng' = [eng EXCEPT !.pc = "irq_resume"]
    /\ UNCHANGED << current_state, registries, control, slots, res, irq, task,
                    wiring, hist, last >>

\* The pause-check of a circuit written against the controller as it is:
\* `if irq.pause_requested: await irq.consume_pause_request(ev_proc)`.
\* consume_pause_request clears the intent and processes PAUSE; the signal
\* is cleared and the mode set when process_event returns (EventReturn).
IrqConsumePause ==
    /\ eng.pc = "irq_pause"
    /\ IF irq.pause_requested
       THEN /\ irq' = consume_pause_request_begin(irq)
            /\ eng' = [eng EXCEPT !.pc = "call", !.site = PAUSE]
       ELSE /\ eng' = [eng EXCEPT !.pc = "irq_resume"]
            /\ UNCHANGED irq
    /\ UNCHANGED << current_state, registries, control, slots, res, task,
                    wiring, hist, last >>

\* IrqResume with the resume-check guarded by the mode: RESUME is fired only
\* in PAUSE mode, and the intent stays scheduled otherwise
IrqResume_only_in_pause_mode ==
    /\ eng.pc = "irq_resume"
    /\ IF irq.resume_event_scheduled /\ irq.mode = "PAUSE"
       THEN /\ irq' = perform_resume_event_begin(irq)
            /\ eng' = [eng EXCEPT !.pc = "call", !.site = RESUME]
       ELSE /\ eng' = [eng EXCEPT !.pc = "irq_wait"]
            /\ UNCHANGED irq
    /\ UNCHANGED << current_state, registries, control, slots, res, task,
                    wiring, hist, last >>

\* `if irq.resume_event_scheduled: await irq.perform_resume_event(ev_proc)`:
\* perform_resume_event clears the intent and processes RESUME; the mode is
\* set when process_event returns (EventReturn).
IrqResume ==
    /\ eng.pc = "irq_resume"
    /\ IF irq.resume_event_scheduled
       THEN /\ irq' = perform_resume_event_begin(irq)
            /\ eng' = [eng EXCEPT !.pc = "call", !.site = RESUME]
       ELSE /\ eng' = [eng EXCEPT !.pc = "irq_wait"]
            /\ UNCHANGED irq
    /\ UNCHANGED << current_state, registries, control, slots, res, task,
                    wiring, hist, last >>

\* `await irq.wait_resume()`: returns at once when the signal is set
IrqWait ==
    /\ eng.pc = "irq_wait"
    /\ eng' = [eng EXCEPT !.pc = IF irq.event THEN "iter_end" ELSE "await_resume"]
    /\ UNCHANGED << current_state, registries, control, slots, res, irq, task,
                    wiring, hist, last >>

\* the signal was set while the circuit waited
ResumeWake ==
    /\ eng.pc = "await_resume"
    /\ ~task.must_cancel
    /\ irq.event
    /\ eng' = [eng EXCEPT !.pc = "iter_end"]
    /\ UNCHANGED << current_state, registries, control, slots, res, irq, task,
                    wiring, hist, last >>

\* task.cancel() took effect: the pending await raises CancelledError.
\* PAUSE and RESUME are processed inside the circuit (consume_pause_request,
\* perform_resume_event): cancelled there, the circuit is left by
\* CancelledError as from any of its awaits.
DeliverCancel ==
    /\ eng.pc \in Suspended
    /\ task.must_cancel
    /\ task' = [task EXCEPT !.must_cancel = FALSE]
    /\ IF eng.pc \in { "await_reactor", "await_handler" }
       THEN /\ GoTo(Finish(eng.site, "CancelledError", eng.exc))
            /\ hist' = IF eng.site \in { PAUSE, RESUME }
                       THEN [hist EXCEPT !.cancelled = TRUE] ELSE hist
       ELSE /\ GoTo(CircuitExit("cancel"))
            /\ hist' = [hist EXCEPT !.cancelled = TRUE]
    /\ UNCHANGED << current_state, registries, control, slots, res, irq,
                    wiring, last >>

\* the except clauses of the outer try: the slot an exception is recorded in
ErrorSlotOf(e) ==
    CASE e = "CircuitError" -> "circuit_error"
      [] e = "EventReactorError" -> "event_reactor_error"
      [] e = "EventHandlerError" -> "handler_error"
      [] e = "CancelledError" -> "none"
      [] OTHER -> "internal_error"

record_error(r, e) ==
    IF ErrorSlotOf(e) = "none" THEN r ELSE [r EXCEPT ![ErrorSlotOf(e)] = e]

OuterExcept ==
    /\ eng.pc = "outer_except"
    /\ res' = record_error(res, eng.exc)
    /\ eng' = [eng EXCEPT !.pc = "outer_finally"]
    /\ UNCHANGED << current_state, registries, control, slots, irq, task,
                    wiring, hist, last >>

\* setup_step_slot.cleanup
CleanSlot(none_name) == [prev_proc |-> none_name, prev_result |-> None]

\* the outer finally: res.set_last_process, state.transit_state(TERMINATED),
\* control.cleanup(); then the task is done with the exception in flight.  A
\* coroutine that returns while a cancellation is still requested leaves its
\* task cancelled; one that raises leaves it with the exception.
OuterFinally ==
    LET t == transit_state(TERMINATED, current_state)
        e == IF t.err = "ok" THEN eng.exc ELSE t.err
    IN
    /\ eng.pc = "outer_finally"
    /\ res' = [res EXCEPT !.last_process = ev_step.prev_proc]
    /\ current_state' = t.next
    /\ IF t.err = "ok"
       THEN /\ ev_step' = CleanSlot("None")
            /\ act_step' = CleanSlot(None)
            /\ control' = [control EXCEPT !.released = TRUE,
                              !.handlers = [x \in ALL_EVENTS |-> 0],
                              !.event_reactor = "None", !.action_reactor = "None"]
       ELSE UNCHANGED << ev_step, act_step, control >>
    /\ eng' = [eng EXCEPT !.pc = "done", !.exc = e]
    /\ task' = [st |-> "done", must_cancel |-> FALSE,
                result |-> IF e = "none"
                           THEN ( IF task.must_cancel THEN "cancelled" ELSE "ok" )
                           ELSE IF e = "CancelledError" THEN "cancelled" ELSE e]
    /\ UNCHANGED << registries, irq, wiring, hist, last >>

(***************************************************************************)
(* Spec: the handle as make_loop_engine_handle builds it.  The LoopControl *)
(* is built, and copies the handlers, at construction.                     *)
(***************************************************************************)
HandleInit ==
    /\ InitCommon
    /\ control = setup_loop_control([e \in ALL_EVENTS |-> 0])
    /\ \E k \in CircuitKinds :
          wiring = [static_circuit |-> k, irq |-> FALSE,
                    log |-> "none", circuit |-> "none"]

Configure(events, max_actions) ==
    \/ \E e \in events, h \in Handlers : SetEventHandler(e, h)
    \/ \E nm \in NameKinds, n \in BOOLEAN : AppendAction(nm, n, max_actions)
    \/ SetEventReactorFactory
    \/ SetActionReactorFactory

Driver ==
    \/ Stop
    \/ Pause
    \/ Resume

Orchestrator ==
    \/ TaskFirstStep
    \/ EngineLog
    \/ SetupEventContext
    \/ ProcessEvent
    \/ SetupActionContext
    \/ CircuitCall
    \/ OuterExcept
    \/ OuterFinally

Next ==
    \/ Configure(HandleEvents, MaxHandleActions)
    \/ HandleStart
    \/ \E f \in BOOLEAN : StartWithCompile(f)
    \/ Driver
    \/ Orchestrator

Spec == HandleInit /\ [][Next]_vars

(***************************************************************************)
(* EngineSpec: _loop_engine(log, state, circuit, ev, control, res) with    *)
(* log a LoopLog and circuit a circuit without the IRQ block (of either    *)
(* form of CircuitForms), on a LoopControl built from the filled registry. *)
(***************************************************************************)
EngineInit ==
    /\ InitCommon
    /\ control = NoControl
    /\ wiring = [static_circuit |-> "function", irq |-> FALSE,
                 log |-> "none", circuit |-> "none"]

Circuit ==
    \/ CircuitAction
    \/ ActionWake
    \/ CircuitLoop

EngineNext ==
    \/ ~control.built /\ Configure(ALL_EVENTS, MaxActions)
    \/ SetupLoopControl
    \/ EngineStart
    \/ Stop
    \/ Orchestrator
    \/ ReactorWake
    \/ HandlerWake
    \/ DeliverCancel
    \/ Circuit

EngineSpec == EngineInit /\ [][EngineNext]_vars

(***************************************************************************)
(* ReaderSpec: the runs of EngineSpec with at most MaxHandleActions        *)
(* actions, and a driver that also calls cleanup() of the result reader    *)
(* (_setup_loop_result_reader.cleanup), at any time.                       *)
(***************************************************************************)
\* result_cleanup without the state gate
result_cleanup_ungated(r, cur) ==
    [err |-> "ok",
     res |-> [r EXCEPT !.loop_result = None, !.circuit_error = "None",
                       !.event_reactor_error = "None", !.handler_error = "None",
                       !.internal_error = "None"]]

\* cleanup() of the reader: state.maintain_state(TERMINATED, loop_result.cleanup);
\* the recorder after the call and the error that leaves it
result_cleanup(r, cur) ==
    LET m == maintain_state(TERMINATED, "ok", cur) IN
    [err |-> m.err,
     res |-> IF m.ran
             THEN [r EXCEPT !.loop_result = None, !.circuit_error = "None",
                            !.event_reactor_error = "None", !.handler_error = "None",
                            !.internal_error = "None"]
             ELSE r]

ReaderCleanup ==
    LET c == result_cleanup(res, current_state) IN
    /\ res' = c.res
    /\ last' = [op |-> "result_cleanup", arg |-> "none", fn |-> "none",
                err |-> c.err, ran |-> c.err = "ok"]
    /\ UNCHANGED << current_state, registries, control, slots, irq, task, wiring,
                    eng, hist >>

ReaderNext ==
    \/ ~control.built /\ Configure(ALL_EVENTS, MaxHandleActions)
    \/ SetupLoopControl
    \/ EngineStart
    \/ Stop
    \/ Orchestrator
    \/ ReactorWake
    \/ HandlerWake
    \/ DeliverCancel
    \/ Circuit
    \/ ReaderCleanup

ReaderSpec == EngineInit /\ [][ReaderNext]_vars

(***************************************************************************)
(* IrqSpec: the same with a circuit that has the IRQ block, and a driver   *)
(* that pauses and resumes.                                                *)
(***************************************************************************)
IrqInit ==
    /\ InitCommon
    /\ control = NoControl
    /\ wiring = [static_circuit |-> "function", irq |-> TRUE,
                 log |-> "none", circuit |-> "none"]

\* the events a handler is registered for when the circuit has a safe point:
\* the two of the safe point, and those of cancellation and finalization
PauseEvents == { PAUSE, RESUME, STOP_CANCELED, CLEANUP, LOOP_RESULT }

IrqBlock ==
    \/ IrqPause
    \/ IrqResume
    \/ IrqWait
    \/ ResumeWake

IrqNext ==
    \/ ~control.built /\ Configure(PauseEvents, MaxIrqActions)
    \/ SetupLoopControl
    \/ EngineStart
    \/ Driver
    \/ Orchestrator
    \/ ReactorWake
    \/ HandlerWake
    \/ DeliverCancel
    \/ Circuit
    \/ IrqBlock

IrqSpec == IrqInit /\ [][IrqNext]_vars

(***************************************************************************)
(* PauseSpec: a run of a circuit that is the safe point alone, written by  *)
(* hand against the interface of the controller: the pause-check awaits    *)
(* irq.consume_pause_request(ev_proc), the method the controller has,      *)
(* where _IRQ_TEMPLATE names consume_pause_result.  The circuit is handed  *)
(* to _loop_engine as a function: the module lays down nothing about the   *)
(* body of a circuit.  It is the only circuit in which a run enters the    *)
(* mode PAUSE.                                                             *)
(***************************************************************************)
PauseConfigure ==
    \/ \E e \in PauseEvents, h \in Handlers : SetEventHandler(e, h)
    \/ SetEventReactorFactory
    \/ SetActionReactorFactory

SafePoint ==
    \/ IrqConsumePause
    \/ IrqResume
    \/ IrqWait
    \/ ResumeWake
    \/ CircuitLoop

PauseNext ==
    \/ ~control.built /\ PauseConfigure
    \/ SetupLoopControl
    \/ EngineStart
    \/ Driver
    \/ Orchestrator
    \/ ReactorWake
    \/ HandlerWake
    \/ DeliverCancel
    \/ SafePoint

PauseSpec == IrqInit /\ [][PauseNext]_vars

(***************************************************************************)
(* ControllerSpec: the InterruptController (setup_loop_interrupt) driven    *)
(* through its interface by arbitrary calls.  One coroutine calls          *)
(* consume_pause_request, perform_resume_event and wait_resume, one call   *)
(* at a time; the event processor handed to them ends well or raises, and  *)
(* while it is awaited the driver may call request_pause and resume.       *)
(*   eng.pc  "idle", "pause_event" (PAUSE being processed), "resume_event" *)
(*           (RESUME being processed), "await_resume" (blocked)            *)
(*   hist.processed  the events handed to the event processor              *)
(*   last    the call that ended last and the error that left it           *)
(***************************************************************************)
\* at most this many events are fired through the controller
MaxFired == 3

CtlEnded(op, err) ==
    [op |-> op, arg |-> "none", fn |-> "none", err |-> err, ran |-> err = "ok"]

CtlFrame == UNCHANGED << current_state, registries, control, slots, res, task, wiring >>

CtlRequestPause ==
    /\ irq' = request_pause(irq)
    /\ UNCHANGED << eng, hist, last >>
    /\ CtlFrame

CtlResume ==
    /\ irq' = resume(irq)
    /\ UNCHANGED << eng, hist, last >>
    /\ CtlFrame

\* consume_pause_request(event_processor) up to `await event_processor(ev.PAUSE)`
CtlConsumePauseRequest ==
    /\ eng.pc = "idle"
    /\ Len(hist.processed) < MaxFired
    /\ irq' = consume_pause_request_begin(irq)
    /\ eng' = [eng EXCEPT !.pc = "pause_event"]
    /\ hist' = [hist EXCEPT !.processed = Append(@, PAUSE)]
    /\ UNCHANGED last
    /\ CtlFrame

\* CtlPauseEventEnds with the end of consume_pause_request in a finally
\* block: the signal is cleared and the mode set even when PAUSE failed
CtlPauseEventEnds_in_finally(o) ==
    /\ eng.pc = "pause_event"
    /\ eng' = [eng EXCEPT !.pc = "idle"]
    /\ irq' = consume_pause_request_end(irq)
    /\ last' = CtlEnded("consume_pause_request", o)
    /\ UNCHANGED hist
    /\ CtlFrame

\* the PAUSE event has been processed: the rest of consume_pause_request, or
\* the error of the event processor leaving it
CtlPauseEventEnds(o) ==
    /\ eng.pc = "pause_event"
    /\ eng' = [eng EXCEPT !.pc = "idle"]
    /\ irq' = IF o = "ok" THEN consume_pause_request_end(irq) ELSE irq
    /\ last' = CtlEnded("consume_pause_request", o)
    /\ UNCHANGED hist
    /\ CtlFrame

\* perform_resume_event(event_processor) up to `await event_processor(ev.RESUME)`
CtlPerformResumeEvent ==
    /\ eng.pc = "idle"
    /\ Len(hist.processed) < MaxFired
    /\ irq' = perform_resume_event_begin(irq)
    /\ eng' = [eng EXCEPT !.pc = "resume_event"]
    /\ hist' = [hist EXCEPT !.processed = Append(@, RESUME)]
    /\ UNCHANGED last
    /\ CtlFrame

CtlResumeEventEnds(o) ==
    /\ eng.pc = "resume_event"
    /\ eng' = [eng EXCEPT !.pc = "idle"]
    /\ irq' = IF o = "ok" THEN perform_resume_event_end(irq) ELSE irq
    /\ last' = CtlEnded("perform_resume_event", o)
    /\ UNCHANGED hist
    /\ CtlFrame

\* wait_resume(): `await _event.wait()` returns at once when the signal is set
CtlWaitResume ==
    /\ eng.pc = "idle"
    /\ IF irq.event
       THEN /\ last' = CtlEnded("wait_resume", "ok")
            /\ UNCHANGED eng
       ELSE /\ eng' = [eng EXCEPT !.pc = "await_resume"]
            /\ UNCHANGED last
    /\ UNCHANGED << irq, hist >>
    /\ CtlFrame

\* the blocked wait_resume() returns once the signal is set
CtlWaitWakes ==
    /\ eng.pc = "await_resume"
    /\ irq.event
    /\ eng' = [eng EXCEPT !.pc = "idle"]
    /\ last' = CtlEnded("wait_resume", "ok")
    /\ UNCHANGED << irq, hist >>
    /\ CtlFrame

ControllerNext ==
    \/ CtlRequestPause
    \/ CtlResume
    \/ CtlConsumePauseRequest
    \/ \E o \in { "ok", "EventHandlerError" } : CtlPauseEventEnds(o)
    \/ CtlPerformResumeEvent
    \/ \E o \in { "ok", "EventHandlerError" } : CtlResumeEventEnds(o)
    \/ CtlWaitResume
    \/ CtlWaitWakes

ControllerSpec == Init /\ [][ControllerNext]_vars

(***************************************************************************)
(* Claims on the StateMachine and the EventRegistry (StateSpec).           *)
(***************************************************************************)
\* C1: whatever maintain_state / transit_state_with / transit_state calls are
\* made, and however they end, the current state changes only from LOAD to
\* ACTIVE or from ACTIVE to TERMINATED.
C1_OnlyLegalEdges ==
    [][ current_state' # current_state =>
           \/ current_state = LOAD /\ current_state' = ACTIVE
           \/ current_state = ACTIVE /\ current_state' = TERMINATED ]_vars

\* C1 witness: TERMINATED was reached and a call that tried to leave it failed.
C1_Witness ==
    /\ current_state = TERMINATED
    /\ last.op = "transit_state_with"
    /\ last.arg = ACTIVE
    /\ last.err # "ok"

\* C3: for each of the nine events, set_event_handler in ACTIVE fails with
\* InvalidStateError and in TERMINATED with TerminatedError, which is an
\* InvalidStateError too; the registry is unchanged.
C3_SetHandlerOutsideLoad ==
    [][ \A e \in ALL_EVENTS, h \in Handlers :
          (current_state # LOAD /\ CallSetEventHandler(e, h)) =>
             /\ event_handlers' = event_handlers
             /\ last'.err = (IF current_state = TERMINATED
                             THEN "TerminatedError" ELSE "InvalidStateError")
             /\ IsInstance(last'.err, "InvalidStateError") ]_vars

\* C3 witness: a registration was refused in TERMINATED with handlers registered.
C3_Witness ==
    /\ current_state = TERMINATED
    /\ last.op = "set_event_handler"
    /\ last.arg \in ALL_EVENTS
    /\ last.err = "TerminatedError"
    /\ Registered(event_handlers) # {}

(***************************************************************************)
(* Claims on a run.                                                        *)
(***************************************************************************)
\* how often event e was handed to process_event, and where first
Count(seq, e) == Cardinality({ i \in 1..Len(seq) : seq[i] = e })
First(seq, e) == CHOOSE i \in 1..Len(seq) : seq[i] = e /\ \A j \in 1..(i - 1) : seq[j] # e

NonNullSlots == { x \in ErrorSlots : res[x] # "None" }

\* C2: every started run leaves the StateMachine in TERMINATED: once the
\* orchestrator has gone through its finally block (the control is released)
\* the current state is TERMINATED.
C2_FinishedRunIsTerminated ==
    control.released => current_state = TERMINATED

\* C4: every event the orchestrator processes, and for which a handler was
\* registered through the handle in LOAD, has that handler invoked.
C4_RegisteredHandlerIsInvoked ==
    \A i \in 1..Len(hist.processed) :
       LET e == hist.processed[i] IN
       event_handlers[e] # 0 =>
          \E j \in 1..Len(hist.invoked) : hist.invoked[j] = << e, event_handlers[e] >>

\* C5: a run that has ended (here: one that got past START) has processed
\* CLEANUP exactly once and LOOP_RESULT exactly once, CLEANUP first.
C5_CleanupThenResultOnce ==
    (eng.pc = "done" /\ hist.start_done) =>
       /\ Count(hist.processed, CLEANUP) = 1
       /\ Count(hist.processed, LOOP_RESULT) = 1
       /\ First(hist.processed, CLEANUP) < First(hist.processed, LOOP_RESULT)

\* C6: no action of the circuit is called before the processing of START
\* has completed: whenever an action has been called, START was the first
\* event processed and its processing has returned.
C6_StartBeforeActions ==
    hist.acts # << >> =>
       /\ hist.start_done
       /\ hist.processed # << >>
       /\ hist.processed[1] = START

\* C6 witness: a START handler was registered and invoked, a stop() made
\* from inside the task is pending (no await has suspended since), and at
\* least two actions were called after START had returned.
C6_Witness ==
    /\ Len(hist.acts) >= 2
    /\ hist.invoked # << >>
    /\ hist.invoked[1] = << START, 1 >>
    /\ hist.start_done
    /\ task.st = "running"
    /\ task.must_cancel

\* C7: a run cancelled by stop() while the circuit was executing has
\* processed STOP_CANCELED, has not invoked the STOP_NORMALLY handler, and
\* ends with the state TERMINATED.
C7_CancelledRunTerminates ==
    (eng.pc = "done" /\ hist.cancelled) =>
       /\ Count(hist.processed, STOP_CANCELED) = 1
       /\ \A j \in 1..Len(hist.invoked) : hist.invoked[j][1] # STOP_NORMALLY
       /\ current_state = TERMINATED

\* C8: with three actions, when the second raised an ordinary exception the
\* third was not called in that iteration, and at the end of the run
\* circuit_error is set, handler_error and event_reactor_error are not, and
\* CLEANUP and LOOP_RESULT were each processed exactly once.
C8_SecondOfThreeFails ==
    (eng.pc = "done" /\ Len(actions) = 3 /\ hist.failed_action = 2) =>
       /\ hist.acts = << 1, 2 >>
       /\ res.circuit_error # "None"
       /\ res.handler_error = "None"
       /\ res.event_reactor_error = "None"
       /\ Count(hist.processed, CLEANUP) = 1
       /\ Count(hist.processed, LOOP_RESULT) = 1

\* C9: at the end of a run at most one error slot is set; when the run
\* failed (the task ended with an error other than cancellation) exactly
\* one is set, the one matching the class of the error the task raised.
C9_OneSlotMatchesError ==
    eng.pc = "done" =>
       /\ Cardinality(NonNullSlots) <= 1
       /\ task.result \notin { "ok", "cancelled" } =>
             NonNullSlots = { ErrorSlotOf(task.result) }

\* C10 as stated: once Break was raised, all four error slots stay null for
\* the rest of the run.
C10_BreakLeavesAllSlotsNull ==
    hist.broke => NonNullSlots = {}

\* C10, amended: once an action or the action reactor raised Break, the
\* circuit is left for the processing of STOP_NORMALLY; circuit_error and
\* internal_error stay null, and handler_error / event_reactor_error are set
\* only when the processing of a later event failed.
C10_BreakIsNoError ==
    hist.broke =>
       /\ \/ eng.pc = "call" /\ eng.site = STOP_NORMALLY
          \/ Count(hist.processed, STOP_NORMALLY) = 1
       /\ hist.failed_action = 0
       /\ res.circuit_error = "None"
       /\ res.internal_error = "None"
       /\ hist.failed_event = "none" => NonNullSlots = {}
       /\ NonNullSlots # {} =>
             hist.failed_event \in { STOP_NORMALLY, STOP_CANCELED, CLEANUP, LOOP_RESULT }

\* C10 witness: a run left its circuit by Break, invoked the STOP_NORMALLY
\* handler and ended without error.
C10_Witness ==
    /\ eng.pc = "done"
    /\ hist.broke
    /\ \E j \in 1..Len(hist.invoked) : hist.invoked[j] = << STOP_NORMALLY, 1 >>
    /\ Count(hist.processed, LOOP_RESULT) = 1
    /\ task.result = "ok"
    /\ NonNullSlots = {}

(***************************************************************************)
(* Claims on the safe point of the circuit (IrqSpec).                      *)
(***************************************************************************)
\* C11: when the circuit reaches its safe point with a pause requested and a
\* resume scheduled, the pause-check acts first: the next thing the circuit
\* does is to process the PAUSE event.
C11_PauseFiresAtSafePoint ==
    [][ (eng.pc = "irq_pause" /\ irq.pause_requested /\ irq.resume_event_scheduled)
           => (eng'.pc \in { "call", "await_reactor", "await_handler", "irq_resume" }
               /\ eng'.site = PAUSE) ]_vars

\* In a run of the generated circuit (IrqSpec, where the mode is RUNNING
\* throughout): while the circuit is blocked in wait_resume() a scheduled
\* resume has the readiness signal set, and the circuit leaves the wait with
\* the resume still scheduled, the controller as resume() left it and no
\* RESUME event processed.
C12_RunLeavesWaitOnResume ==
    [][ /\ (eng'.pc = "await_resume" /\ irq'.resume_event_scheduled) => irq'.event
        /\ (eng.pc = "await_resume" /\ eng'.pc = "iter_end") =>
              /\ irq.event
              /\ irq.resume_event_scheduled
              /\ irq' = irq
              /\ hist' = hist ]_vars

(***************************************************************************)
(* Claims on the loop result (EngineSpec).                                 *)
(***************************************************************************)
\* the run has not reached its finalization block
BeforeFinalization == Count(hist.processed, CLEANUP) = 0

\* the run has ended and LOOP_RESULT was processed
FinalizedRun == eng.pc = "done" /\ Count(hist.processed, LOOP_RESULT) = 1

\* C13: loop_result is PENDING_RESULT until the run reaches its finalization
\* block; once the run has ended it is the return value of the LOOP_RESULT
\* handler (here: for a run that ended without error), or NO_RESULT if that
\* handler failed.
C13_LoopResultLifecycle ==
    /\ BeforeFinalization => res.loop_result = PENDING_RESULT
    /\ (FinalizedRun /\ hist.failed_event = LOOP_RESULT) =>
          res.loop_result = NO_RESULT
    /\ (FinalizedRun /\ task.result = "ok" /\ event_handlers[LOOP_RESULT] # 0) =>
          res.loop_result = HandlerReturn(LOOP_RESULT, event_handlers[LOOP_RESULT])

\* the parts of C13 that the code does satisfy
C13_PendingAndReturnParts ==
    /\ BeforeFinalization => res.loop_result = PENDING_RESULT
    /\ (FinalizedRun /\ task.result = "ok" /\ event_handlers[LOOP_RESULT] # 0) =>
          res.loop_result = HandlerReturn(LOOP_RESULT, event_handlers[LOOP_RESULT])

(***************************************************************************)
(* Claims on the circuit's iterations (EngineSpec).                        *)
(***************************************************************************)
\* C14: in every iteration the registered actions are called in registration
\* order, each once: the calls of the current iteration are 1, 2, ... with no
\* gap and no repetition; an action that has returned is recorded with its
\* result in the action StepSlot and the circuit goes on to the next action
\* or to the end of the iteration, so that a complete iteration has called
\* every action and leaves the last registered one in the slot; iterations go
\* on until the run is cancelled by stop(), after which no action is called.
C14_ActionsInOrderEachIteration ==
    /\ [] /\ hist.acts = [j \in 1..Len(hist.acts) |-> j]
          /\ (eng.pc = "iter_end" /\ Len(actions) > 0) =>
                /\ Len(hist.acts) = Len(actions)
                /\ act_step = [prev_proc |-> Len(actions),
                               prev_result |-> ActionReturn(Len(actions))]
          /\ hist.cancelled => eng.pc \notin { "action", "await_action", "iter_end" }
    /\ [][ ( /\ eng.pc \in { "action", "await_action" }
             /\ eng'.pc # "await_action"
             /\ Len(hist'.acts) = IF eng.pc = "action" THEN Len(hist.acts) + 1
                                                      ELSE Len(hist.acts)
             /\ hist'.failed_action = hist.failed_action
             /\ hist'.broke = hist.broke
             /\ hist'.cancelled = hist.cancelled ) =>
               /\ act_step' = set_prev_result(act_step, eng.ai, ActionReturn(eng.ai))
               /\ eng'.pc \in { "action", "iter_end" } ]_vars

\* the part of C14 that the code does satisfy: the order of the calls within
\* an iteration, and the slot at the end of an iteration that is completed
C14_OrderWithinIteration ==
    /\ hist.acts = [j \in 1..Len(hist.acts) |-> j]
    /\ (eng.pc = "iter_end" /\ Len(actions) > 0) =>
          /\ Len(hist.acts) = Len(actions)
          /\ act_step = [prev_proc |-> Len(actions),
                         prev_result |-> ActionReturn(Len(actions))]
    /\ hist.cancelled => eng.pc \notin { "action", "await_action", "iter_end" }

\* a second iteration is completed by two or more actions (their names
\* evaluate in the namespace of the circuit)
C14_SecondIterationReached ==
    /\ eng.pc = "iter_end"
    /\ eng.iter = 2
    /\ Len(actions) >= 2
    /\ hist.acts = [j \in 1..Len(actions) |-> j]

(***************************************************************************)
(* Claims on the driver's controls (Spec).                                 *)
(***************************************************************************)
\* C15: stop(), pause() and resume() act only while the state is ACTIVE: in
\* LOAD and in TERMINATED no step changes the cancellation request of the
\* task nor the controller's intents, mode and readiness signal.
C15_ControlsOnlyInActive ==
    [][ current_state # ACTIVE =>
           /\ irq' = irq
           /\ task'.must_cancel = task.must_cancel ]_vars

\* the part of C15 that the code does satisfy: stop() is gated to ACTIVE
C15_StopOnlyInActive ==
    [][ current_state # ACTIVE => task'.must_cancel = task.must_cancel ]_vars

(***************************************************************************)
(* Claims on failures during finalization.                                 *)
(***************************************************************************)
\* C16: when an action has failed (the run is failing with CircuitError) and
\* the CLEANUP handler then fails too, the error recorded and re-raised to the
\* driver is still the CircuitError: circuit_error is set, handler_error is
\* not, and the task ends with CircuitError.
C16_CleanupFailureKeepsOriginal ==
    (eng.pc = "done" /\ hist.failed_action # 0 /\ hist.failed_event = CLEANUP) =>
       /\ res.circuit_error = "CircuitError"
       /\ res.handler_error = "None"
       /\ res.event_reactor_error = "None"
       /\ task.result = "CircuitError"

(***************************************************************************)
(* Claims on the action and reactor registries (RegistrySpec).             *)
(***************************************************************************)
\* the error of a LOAD-gated call made in state cur
GateError(cur) == IF cur = TERMINATED THEN "TerminatedError" ELSE "InvalidStateError"

\* C17: append_action, set_event_reactor_factory and set_action_reactor_factory
\* succeed only in LOAD (there append_action adds the action at the end,
\* unless the registry was released); called in ACTIVE or TERMINATED they fail
\* with a state error and leave the action registry, its order and both
\* reactor factories unchanged; so outside LOAD no step of the three changes
\* a registry.  (The cleanup() of a registry is none of the three and is
\* called by nothing of the handle or the engine.)
C17_RegistrationsOnlyInLoad ==
    [][ /\ \A nm \in NameKinds, n \in BOOLEAN :
              CallAppendAction(nm, n) =>
                 IF current_state # LOAD
                 THEN /\ last'.err = GateError(current_state)
                      /\ actions' = actions
                      /\ factories' = factories
                 ELSE IF "act" \in cleaned
                 THEN last'.err = "TypeError" /\ actions' = actions
                 ELSE /\ last'.err = "ok"
                      /\ actions' = Append(actions, NewAction(nm, n))
        /\ \A w \in { "event", "action" } :
              CallSetReactorFactory(w) =>
                 IF current_state = LOAD
                 THEN last'.err = "ok" /\ factories'[w] = "user"
                 ELSE /\ last'.err = GateError(current_state)
                      /\ factories' = factories
                      /\ actions' = actions
        /\ (current_state # LOAD /\ (actions' # actions \/ factories' # factories)) =>
              /\ \A nm \in NameKinds, n \in BOOLEAN : ~CallAppendAction(nm, n)
              /\ \A w \in { "event", "action" } : ~CallSetReactorFactory(w) ]_vars

\* C17 witness: append_action was refused while ACTIVE with two actions
\* registered and a user factory set.
C17_Witness ==
    /\ current_state = ACTIVE
    /\ last.op = "append_action"
    /\ last.err = "InvalidStateError"
    /\ Len(actions) = 2
    /\ factories.action = "user"

(***************************************************************************)
(* Claims on handler failures at the safe point (IrqSpec).                 *)
(***************************************************************************)
\* C18: when the handler of PAUSE or RESUME fails while the circuit processes
\* that event at its safe point (default event reactor, no cancellation and no
\* later failure), the run ends with the failure recorded as EventHandlerError
\* in handler_error, and circuit_error stays null.
C18_SafePointHandlerFailureIsHandlerError ==
    ( /\ eng.pc = "done"
      /\ hist.failed_event \in { PAUSE, RESUME }
      /\ factories.event = "default"
      /\ task.result # "cancelled" ) =>
       /\ res.handler_error = "EventHandlerError"
       /\ res.circuit_error = "None"
       /\ task.result = "EventHandlerError"

(***************************************************************************)
(* Claims on transit_state (StateSpec).                                    *)
(***************************************************************************)
\* C19: transit_state(to) on a legal edge (LOAD -> ACTIVE, ACTIVE ->
\* TERMINATED) succeeds and advances the state to `to`, the same next state
\* as transit_state_with(to, fn) with a function that returns, and runs no
\* function.
C19_TransitStateAdvances ==
    [][ \A to \in ALL :
          (legal_edge(current_state, to) /\ CallTransitState(to)) =>
             /\ last'.err = "ok"
             /\ ~last'.ran
             /\ current_state' = to
             /\ current_state' = transit_state_with(to, "ok", current_state).next ]_vars

\* the part of C19 that the code does satisfy: no error and no function run
C19_TransitStateRunsNothing ==
    [][ \A to \in ALL :
          (legal_edge(current_state, to) /\ CallTransitState(to)) =>
             /\ last'.err = "ok"
             /\ ~last'.ran ]_vars

(***************************************************************************)
(* Claims on the value of the loop result (EngineSpec).                    *)
(***************************************************************************)
\* the step in which process_event(LOOP_RESULT) returns with no exception in
\* flight: finalization completes without failure
FinalizationCompletes ==
    /\ eng.site = LOOP_RESULT
    /\ eng.pc \in { "call", "await_reactor", "await_handler" }
    /\ eng'.pc = "outer_finally"

\* C20 as stated: loop_result is written only with the action StepSlot's last
\* result, and it is written so when finalization completes without failure.
C20_LoopResultIsActionResult ==
    [][ /\ res'.loop_result # res.loop_result =>
              res'.loop_result = act_step.prev_result
        /\ FinalizationCompletes => res'.loop_result = act_step.prev_result ]_vars

\* C20 amended: loop_result is written only when process_event(LOOP_RESULT)
\* returns, with the event StepSlot's last result; when finalization completes
\* without failure it holds that value, which is the return value of the
\* LOOP_RESULT handler when one is registered.
C20_LoopResultIsEventResult ==
    [][ /\ res'.loop_result # res.loop_result =>
              /\ eng.site = LOOP_RESULT
              /\ res'.loop_result = ev_step'.prev_result
        /\ FinalizationCompletes =>
              /\ res'.loop_result = ev_step'.prev_result
              /\ control.handlers[LOOP_RESULT] # 0 =>
                    res'.loop_result =
                       HandlerReturn(LOOP_RESULT, control.handlers[LOOP_RESULT]) ]_vars

\* C20 witness: finalization completed after actions had run, and the loop
\* result is the LOOP_RESULT handler's return value, not the last action's.
C20_Witness ==
    /\ eng.pc = "outer_finally"
    /\ eng.exc = "none"
    /\ Len(actions) > 0
    /\ act_step.prev_result = ActionReturn(Len(actions))
    /\ res.loop_result = HandlerReturn(LOOP_RESULT, 1)
    /\ res.loop_result # act_step.prev_result

(***************************************************************************)
(* Claims on cancellation in wait_resume() (PauseSpec, IrqSpec).           *)
(***************************************************************************)
\* C21: with a stop() called while the circuit is suspended in wait_resume()
\* in PAUSE mode, the circuit is aborted there with no resume(): the next
\* thing the run does is to process STOP_CANCELED, the controller is
\* untouched, and the run ends with CLEANUP and LOOP_RESULT processed once
\* each, in that order.
C21_StopInWaitResumeFinalizes ==
    [][ /\ ( /\ eng.pc = "await_resume"
              /\ irq.mode = "PAUSE"
              /\ task.must_cancel
              /\ eng' # eng ) =>
              /\ eng'.pc = "call"
              /\ eng'.site = STOP_CANCELED
              /\ irq' = irq
        /\ (eng'.pc = "done" /\ hist'.stopped_in_pause) =>
              /\ Count(hist'.processed, STOP_CANCELED) = 1
              /\ Count(hist'.processed, CLEANUP) = 1
              /\ Count(hist'.processed, LOOP_RESULT) = 1
              /\ First(hist'.processed, STOP_CANCELED) < First(hist'.processed, CLEANUP)
              /\ First(hist'.processed, CLEANUP) < First(hist'.processed, LOOP_RESULT) ]_vars

\* the part of C21 that the code does satisfy: the abort at the suspension
\* point in PAUSE mode, with the signal unset and no resume(), STOP_CANCELED
\* next, and CLEANUP always processed
C21_StopInWaitResumeAborts ==
    [][ /\ ( /\ eng.pc = "await_resume"
              /\ irq.mode = "PAUSE"
              /\ task.must_cancel
              /\ eng' # eng ) =>
              /\ eng'.pc = "call"
              /\ eng'.site = STOP_CANCELED
              /\ irq' = irq
        /\ (eng'.pc = "done" /\ hist'.stopped_in_pause) =>
              /\ Count(hist'.processed, STOP_CANCELED) = 1
              /\ Count(hist'.processed, CLEANUP) = 1
              /\ First(hist'.processed, STOP_CANCELED) < First(hist'.processed, CLEANUP) ]_vars

\* the run the claim is about, ended as it promises: paused, aborted in
\* wait_resume() with the signal unset, STOP_CANCELED, CLEANUP and
\* LOOP_RESULT processed
C21_AbortedInPauseAndFinalized ==
    /\ eng.pc = "done"
    /\ hist.stopped_in_pause
    /\ ~irq.event
    /\ hist.processed = << START, PAUSE, STOP_CANCELED, CLEANUP, LOOP_RESULT >>
    /\ \E i \in 1..Len(hist.invoked) : hist.invoked[i][1] = STOP_CANCELED
    /\ task.result = "ok"

\* the same run with a CLEANUP handler that fails: LOOP_RESULT is skipped
C21_AbortedInPauseNotFinalized ==
    /\ eng.pc = "done"
    /\ hist.stopped_in_pause
    /\ hist.failed_event = CLEANUP
    /\ hist.processed = << START, PAUSE, STOP_CANCELED, CLEANUP >>

\* in a run of the generated circuit (IrqSpec) the mode PAUSE is never
\* entered: the pause-check fails before consume_pause_request is reached
C21_ModeNeverPause == irq.mode = "RUNNING"

(***************************************************************************)
(* Claims on the release of the working state (ReaderSpec).                *)
(***************************************************************************)
\* C22: the outer finally of a run releases both StepSlots and leaves the
\* recorder's error slots and loop_result as they are (it only writes the
\* last-process name); once the run has ended the recorder changes only by a
\* reader cleanup() made in TERMINATED; a reader cleanup() in any other state
\* fails with a state error and leaves the recorder unchanged.  TERMINATED
\* is the state of no run (transit_state assigns nothing, C2), so the gate
\* of cleanup() is evaluated for each of the three states on the recorder of
\* every reachable state: it is passed in TERMINATED alone, and there the
\* loop result and the four error slots are cleared.
C22_RecorderSurvivesFinalization ==
    [][ /\ (eng.pc = "outer_finally" /\ eng'.pc = "done") =>
              /\ ev_step' = CleanSlot("None")
              /\ act_step' = CleanSlot(None)
              /\ control'.released
              /\ res' = [res EXCEPT !.last_process = ev_step.prev_proc]
        /\ (eng.pc = "done" /\ res' # res) =>
              /\ current_state = TERMINATED
              /\ last'.op = "result_cleanup"
        /\ (ReaderCleanup /\ current_state # TERMINATED) =>
              /\ res' = res
              /\ last'.err = GateError(current_state)
        /\ \A s \in ALL :
              LET c == result_cleanup(res, s) IN
              IF s = TERMINATED
              THEN /\ c.err = "ok"
                   /\ c.res = [res EXCEPT !.loop_result = None,
                                          !.circuit_error = "None",
                                          !.event_reactor_error = "None",
                                          !.handler_error = "None",
                                          !.internal_error = "None"]
              ELSE /\ c.err = GateError(s)
                   /\ c.res = res ]_vars

\* C22 witness: the run has ended with an error recorded, the StepSlots are
\* released, a reader cleanup() was refused and the recorder is still readable.
C22_Witness ==
    /\ eng.pc = "done"
    /\ control.released
    /\ ev_step = CleanSlot("None")
    /\ last.op = "result_cleanup"
    /\ last.err = "InvalidStateError"
    /\ res.circuit_error = "CircuitError"
    /\ res.last_process = LOOP_RESULT
    /\ res.loop_result = HandlerReturn(LOOP_RESULT, 1)

(***************************************************************************)
(* Claims on transit_state_with and maintain_state (StateSpec).            *)
(***************************************************************************)
\* C23: transit_state_with(to, fn) on a legal edge runs fn under the guard of
\* the old state and assigns the new state only after fn has returned: when
\* fn returns the state is `to`, when fn raises the state is still the old
\* one.  For start(): in LOAD the task is created by that fn and the state
\* after the call is ACTIVE; in any other state no task is created.
C23_FnRunsBeforeAdvance ==
    [][ /\ \A to \in ALL, fn \in FnKinds :
              (legal_edge(current_state, to) /\ CallTransitStateWith(to, fn)) =>
                 /\ maintain_state(current_state, fn, current_state).ran
                 /\ last'.ran
                 /\ fn = "ok" => (last'.err = "ok" /\ current_state' = to)
                 /\ fn = "raise" => (last'.err = "Exception"
                                      /\ current_state' = current_state)
        /\ LET s == task_start(current_state, task) IN
              IF current_state = LOAD
              THEN s.err = "ok" /\ s.task.st = "pending" /\ s.next = ACTIVE
              ELSE s.err # "ok" /\ s.task = task /\ s.next = current_state ]_vars

\* C23 witness: a function that raised on the legal edge ACTIVE -> TERMINATED
\* left the state ACTIVE.
C23_Witness ==
    /\ current_state = ACTIVE
    /\ last.op = "transit_state_with"
    /\ last.arg = TERMINATED
    /\ last.fn = "raise"
    /\ last.ran
    /\ last.err = "Exception"

\* C24: maintain_state(expected, fn) runs fn exactly when the current state
\* is `expected` (the call then ends as fn ends); otherwise fn is not run and
\* the call fails with UnknownStateError when `expected` is none of the three
\* tokens, else with TerminatedError when the current state is TERMINATED,
\* else with InvalidStateError.  The call itself never changes the state.
C24_MaintainStateGuard ==
    [][ \A s \in ALL \cup { UnknownToken }, fn \in FnKinds :
          CallMaintainState(s, fn) =>
             /\ current_state' = current_state
             /\ last'.ran <=> (s = current_state)
             /\ s = current_state =>
                   last'.err = (IF fn = "raise" THEN "Exception" ELSE "ok")
             /\ s # current_state =>
                   last'.err = (IF s \notin ALL THEN "UnknownStateError"
                                ELSE IF current_state = TERMINATED
                                THEN "TerminatedError"
                                ELSE "InvalidStateError") ]_vars

\* C24 witness: in TERMINATED a call with an unknown token was refused with
\* UnknownStateError, fn not run.
C24_Witness ==
    /\ current_state = TERMINATED
    /\ last.op = "maintain_state"
    /\ last.arg = UnknownToken
    /\ last.err = "UnknownStateError"
    /\ ~last.ran

(***************************************************************************)
(* Claims on process_event (EngineSpec).                                   *)
(***************************************************************************)
\* the step in which process_event(eng.site) is entered
EntersProcessEvent ==
    /\ eng.pc = "call"
    /\ hist'.processed = Append(hist.processed, eng.site)

\* the run continues as _loop_engine continues after process_event returned r
ContinuesAfter(r) ==
    LET f == Finish(eng.site, r, eng.exc) IN
    /\ eng'.pc = f.pc
    /\ eng'.site = f.site
    /\ eng'.exc = f.exc

\* C25: process_event(E) with no handler registered for E returns at once:
\* the event reactor is neither invoked nor awaited, no handler is invoked,
\* nothing is raised (the run continues as after a successful return) and
\* both StepSlots are unchanged.
C25_NoHandlerIsNoop ==
    [][ (EntersProcessEvent /\ control.handlers[eng.site] = 0) =>
           /\ ContinuesAfter("ok")
           /\ eng'.pc \notin { "await_reactor", "await_handler" } \/ eng'.site # eng.site
           /\ hist'.invoked = hist.invoked
           /\ hist'.failed_event = hist.failed_event
           /\ ev_step' = ev_step
           /\ act_step' = act_step ]_vars

\* C25 witness: START was processed with no START handler while a user event
\* reactor and another handler were in place; nothing was invoked or recorded.
C25_Witness ==
    /\ control.event_reactor = "user"
    /\ control.handlers[START] = 0
    /\ control.handlers[CLEANUP] # 0
    /\ hist.processed = << START >>
    /\ hist.invoked = << >>
    /\ hist.start_done
    /\ ev_step = NewStepSlot("<unset>")
    /\ eng.pc = "setup_action_context"

\* the handler of the event being processed has not been invoked
HandlerNotYetInvoked ==
    \A j \in 1..Len(hist.invoked) : hist.invoked[j][1] # eng.site

\* C26: process_event invokes the event reactor before the handler: while the
\* reactor is awaited the handler of that event has not been invoked.  When
\* the reactor fails, at its call or while awaited, process_event raises
\* EventReactorError, the handler is not invoked and the event StepSlot is
\* unchanged.
C26_ReactorFailureSkipsHandler ==
    [][ /\ \A from \in { "call", "await_reactor" } :
              EventStep(from, "reactor_raise") =>
                 /\ ContinuesAfter("EventReactorError")
                 /\ hist'.invoked = hist.invoked
                 /\ hist'.failed_event = eng.site
                 /\ ev_step' = ev_step
        /\ EventStep("call", "reactor_suspend") =>
              /\ eng'.pc = "await_reactor"
              /\ hist'.invoked = hist.invoked
              /\ ev_step' = ev_step
        /\ eng.pc = "await_reactor" => HandlerNotYetInvoked ]_vars

\* C26 witness: the reactor failed for START, whose handler is registered and
\* was not invoked; EventReactorError is in flight and the slot is untouched.
C26_Witness ==
    /\ control.handlers[START] # 0
    /\ hist.processed = << START, CLEANUP >>
    /\ hist.failed_event = START
    /\ eng.exc = "EventReactorError"
    /\ \A j \in 1..Len(hist.invoked) : hist.invoked[j][1] # START
    /\ ev_step.prev_proc # START

\* C27: when the handler fails, at its call or while awaited, process_event
\* raises EventHandlerError and the event StepSlot keeps its previous name and
\* result; when the handler succeeds the event StepSlot holds the event name
\* and the handler's result.  The action StepSlot is unchanged either way.
C27_HandlerOutcomeAndSlot ==
    [][ \A from \in { "call", "await_reactor", "await_handler" } :
          /\ EventStep(from, "handler_raise") =>
                /\ ContinuesAfter("EventHandlerError")
                /\ hist'.failed_event = eng.site
                /\ ev_step' = ev_step
                /\ act_step' = act_step
          /\ EventStep(from, "ok") =>
                /\ ContinuesAfter("ok")
                /\ ev_step' = [prev_proc |-> eng.site,
                               prev_result |->
                                  HandlerReturn(eng.site, control.handlers[eng.site])]
                /\ act_step' = act_step ]_vars

\* C27 witness: after START's handler succeeded and an action ran, the CLEANUP
\* handler failed: the event StepSlot still holds START and its result.
C27_Witness ==
    /\ hist.failed_event = CLEANUP
    /\ eng.exc = "EventHandlerError"
    /\ ev_step = [prev_proc |-> START, prev_result |-> HandlerReturn(START, 1)]
    /\ act_step.prev_proc >= 1
    /\ act_step.prev_result = ActionReturn(act_step.prev_proc)

(***************************************************************************)
(* Claims on the InterruptController (ControllerSpec, IrqSpec).            *)
(***************************************************************************)
\* C12: a resume() called while a coroutine is blocked in wait_resume() sets
\* the readiness signal and the resume intent and touches nothing else: the
\* mode is left as it is and no event is processed.  While the coroutine is
\* blocked nothing clears the signal again, and the blocked wait_resume()
\* ends only with the signal set, returning normally with the controller and
\* the processed events as they were: perform_resume_event() has not run
\* and the mode may still read PAUSE.
C12_ResumeUnblocksWait ==
    [][ /\ (eng.pc = "await_resume" /\ CtlResume) =>
              /\ irq' = [irq EXCEPT !.resume_event_scheduled = TRUE, !.event = TRUE]
              /\ eng' = eng
              /\ hist' = hist
        /\ (eng.pc = "await_resume" /\ irq.event) => irq'.event
        /\ (eng.pc = "await_resume" /\ eng'.pc # "await_resume") =>
              /\ irq.event
              /\ eng'.pc = "idle"
              /\ last' = CtlEnded("wait_resume", "ok")
              /\ irq' = irq
              /\ hist' = hist ]_vars

\* C12 witness: a coroutine paused by consume_pause_request() is blocked in
\* wait_resume() and resume() has been called: the signal is set, so that the
\* wait is over, while the mode still reads PAUSE and no RESUME event has
\* been processed.
C12_Witness ==
    /\ eng.pc = "await_resume"
    /\ irq = [mode |-> "PAUSE", event |-> TRUE,
              pause_requested |-> FALSE, resume_event_scheduled |-> TRUE]
    /\ hist.processed = << PAUSE >>

\* C28 as stated: consume_pause_request() clears the intent and fires PAUSE
\* with the signal and the mode not yet changed; when PAUSE processing
\* succeeds it ends with pause-requested false, the signal cleared and the
\* mode PAUSE.
C28_ConsumePauseEndsUnrequested ==
    [][ /\ CtlConsumePauseRequest =>
              /\ ~irq'.pause_requested
              /\ hist'.processed = Append(hist.processed, PAUSE)
              /\ irq'.event = irq.event
              /\ irq'.mode = irq.mode
        /\ CtlPauseEventEnds("ok") =>
              /\ ~irq'.pause_requested
              /\ ~irq'.event
              /\ irq'.mode = "PAUSE" ]_vars

\* C28 amended: as above, but at the end the pause-requested intent is what
\* it was made while PAUSE was processed: false unless request_pause() was
\* called again meanwhile.  When PAUSE processing fails the signal and the
\* mode are not changed.
C28_ConsumePauseOrder ==
    [][ /\ CtlConsumePauseRequest =>
              /\ ~irq'.pause_requested
              /\ hist'.processed = Append(hist.processed, PAUSE)
              /\ irq'.event = irq.event
              /\ irq'.mode = irq.mode
        /\ CtlPauseEventEnds("ok") =>
              /\ irq'.pause_requested = irq.pause_requested
              /\ irq'.resume_event_scheduled = irq.resume_event_scheduled
              /\ ~irq'.event
              /\ irq'.mode = "PAUSE"
        /\ CtlPauseEventEnds("EventHandlerError") => irq' = irq
        /\ (eng.pc = "pause_event" /\ irq'.pause_requested /\ ~irq.pause_requested) =>
              CtlRequestPause ]_vars

\* C28 witness: consume_pause_request() ended well with the signal cleared
\* and the mode PAUSE, after a resume() had set the signal, and with a pause
\* requested again while PAUSE was processed.
C28_Witness ==
    /\ eng.pc = "idle"
    /\ last = CtlEnded("consume_pause_request", "ok")
    /\ hist.processed = << PAUSE >>
    /\ irq.mode = "PAUSE"
    /\ ~irq.event
    /\ irq.resume_event_scheduled
    /\ irq.pause_requested

\* C29: request_pause() changes only the pause-requested intent (mode,
\* resume intent and readiness signal are unchanged) and touches neither the
\* coroutine nor the task; the steps of the circuit's actions leave the
\* controller alone, and a requested pause ends the iteration nowhere but at
\* the pause-check of the safe point.
C29_RequestPauseOnlySetsIntent ==
    [][ /\ Pause =>
              /\ irq' = [irq EXCEPT !.pause_requested = TRUE]
              /\ eng' = eng
              /\ task' = task
              /\ hist' = hist
        /\ (CircuitAction \/ ActionWake) => irq' = irq
        /\ irq'.pause_requested # irq.pause_requested => Pause
        /\ irq'.mode # irq.mode => eng.site \in { PAUSE, RESUME } ]_vars

\* C29 witness: with a pause requested while the first action was awaited,
\* the circuit has gone on through its second action to the safe point.
C29_Witness ==
    /\ eng.pc = "irq_pause"
    /\ irq.pause_requested
    /\ irq.mode = "RUNNING"
    /\ ~irq.event
    /\ ~irq.resume_event_scheduled
    /\ hist.acts = << 1, 2 >>
    /\ act_step = [prev_proc |-> 2, prev_result |-> ActionReturn(2)]

\* C30: resume() sets the resume intent and the readiness signal and changes
\* neither the mode nor the pause-requested intent; perform_resume_event()
\* clears the resume intent and then fires RESUME with the mode unchanged;
\* the mode changes to RUNNING in no other step than the end of a
\* perform_resume_event() whose RESUME processing succeeded.
C30_ResumeLeavesModeToResumeEvent ==
    [][ /\ CtlResume =>
              /\ irq' = [irq EXCEPT !.resume_event_scheduled = TRUE, !.event = TRUE]
              /\ eng' = eng
        /\ CtlPerformResumeEvent =>
              /\ ~irq'.resume_event_scheduled
              /\ hist'.processed = Append(hist.processed, RESUME)
              /\ irq'.mode = irq.mode
              /\ irq'.event = irq.event
        /\ CtlResumeEventEnds("ok") =>
              /\ irq' = [irq EXCEPT !.mode = "RUNNING"]
              /\ hist.processed[Len(hist.processed)] = RESUME
        /\ CtlResumeEventEnds("EventHandlerError") => irq' = irq
        /\ (irq.mode = "PAUSE" /\ irq'.mode = "RUNNING") =>
              CtlResumeEventEnds("ok") ]_vars

\* C30 witness: after a pause, resume() left the mode PAUSE, and
\* perform_resume_event() has cleared the intent, fired RESUME and set RUNNING.
C30_Witness ==
    /\ hist.processed = << PAUSE, RESUME >>
    /\ last = CtlEnded("perform_resume_event", "ok")
    /\ irq.mode = "RUNNING"
    /\ irq.event
    /\ ~irq.resume_event_scheduled
    /\ ~irq.pause_requested

\* C31: in every interleaving of driver calls and controller operations the
\* pause-requested intent turns true in no step but request_pause() and
\* false in no step but one of consume_pause_request(); the resume-scheduled
\* intent turns true in no step but resume() and false in no step but one of
\* perform_resume_event(); wait_resume() and the wake-up write neither.
C31_IntentWriters ==
    [][ /\ (~irq.pause_requested /\ irq'.pause_requested) => CtlRequestPause
        /\ (irq.pause_requested /\ ~irq'.pause_requested) =>
              (CtlConsumePauseRequest \/ \E o \in { "ok", "EventHandlerError" } :
                                            CtlPauseEventEnds(o))
        /\ (~irq.resume_event_scheduled /\ irq'.resume_event_scheduled) => CtlResume
        /\ (irq.resume_event_scheduled /\ ~irq'.resume_event_scheduled) =>
              (CtlPerformResumeEvent \/ \E o \in { "ok", "EventHandlerError" } :
                                           CtlResumeEventEnds(o))
        /\ (CtlWaitResume \/ CtlWaitWakes) => irq' = irq ]_vars

\* C31 witness: both intents have been set and consumed, and a pause has
\* been requested again while RESUME is processed.
C31_Witness ==
    /\ eng.pc = "resume_event"
    /\ hist.processed = << PAUSE, RESUME >>
    /\ irq.mode = "PAUSE"
    /\ irq.pause_requested
    /\ ~irq.resume_event_scheduled
    /\ ~irq.event


\* The same on a whole run with the pause-resume block (IrqSpec): the driver's
\* pause() and resume() are the only steps that set an intent, and the
\* resume-check of the circuit is the only step that clears one.
C31_RunIntentWriters ==
    [][ /\ (~irq.pause_requested /\ irq'.pause_requested) => Pause
        /\ (~irq.resume_event_scheduled /\ irq'.resume_event_scheduled) => Resume
        /\ (irq.resume_event_scheduled /\ ~irq'.resume_event_scheduled) => IrqResume
        /\ ~(irq.pause_requested /\ ~irq'.pause_requested) ]_vars


(***************************************************************************)
(* Claims on failing runs and their finalization (EngineSpec).             *)
(***************************************************************************)
\* the events handed to process_event so far
Processed(e) == \E i \in 1..Len(hist.processed) : hist.processed[i] = e

\* C32: an error slot of the ResultRecorder is written only after CLEANUP
\* and LOOP_RESULT have been processed, and all four error slots are null
\* while CLEANUP and LOOP_RESULT are processed.
C32_SlotWrittenAfterFinalization ==
    [][ /\ (NonNullSlots = {} /\ NonNullSlots' # {}) =>
              (Processed(CLEANUP) /\ Processed(LOOP_RESULT))
        /\ eng'.site \in { CLEANUP, LOOP_RESULT } => NonNullSlots' = {} ]_vars

\* What holds of C32: the slots are null while CLEANUP and LOOP_RESULT are
\* processed; a slot is written by the outer except clause only, after the
\* inner finally was left: with both events processed unless processing
\* CLEANUP failed, and with none processed when the failure came before the
\* inner try (the event reactor factory).
C32_SlotsNullDuringFinalization ==
    [][ /\ eng'.site \in { CLEANUP, LOOP_RESULT } => NonNullSlots' = {}
        /\ (NonNullSlots = {} /\ NonNullSlots' # {}) =>
              /\ OuterExcept
              /\ \/ Processed(CLEANUP) /\ Processed(LOOP_RESULT)
                 \/ Processed(CLEANUP) /\ hist.failed_event = CLEANUP
                 \/ hist.processed = << >> ]_vars


\* processing of START failed: START was handed to process_event, did not
\* return, and the inner finally has started (a cancellation goes through
\* STOP_CANCELED first)
StartFailed ==
    /\ Len(hist.processed) >= 2
    /\ hist.processed[1] = START
    /\ hist.processed[2] = CLEANUP
    /\ ~hist.start_done

\* the class of the failure of START: the handler was invoked iff it is the
\* handler that failed
StartFailureClass ==
    IF \E i \in 1..Len(hist.invoked) : hist.invoked[i][1] = START
    THEN "EventHandlerError" ELSE "EventReactorError"

\* C33: when processing START failed, in the reactor or in the handler, the
\* ended run has called no action and has not processed STOP_NORMALLY, has
\* processed CLEANUP and LOOP_RESULT, and has the failure recorded in the
\* error slot of its class, the other slots being null.
C33_StartFailureFinalizes ==
    (StartFailed /\ eng.pc = "done") =>
       /\ hist.acts = << >>
       /\ ~Processed(STOP_NORMALLY)
       /\ Processed(CLEANUP)
       /\ Processed(LOOP_RESULT)
       /\ NonNullSlots = { ErrorSlotOf(StartFailureClass) }
       /\ res[ErrorSlotOf(StartFailureClass)] = StartFailureClass

\* What holds of C33: a failed START is followed by CLEANUP at once, with no
\* action, no circuit, no STOP_NORMALLY and no STOP_CANCELED; and when
\* neither CLEANUP nor LOOP_RESULT processing failed or was cancelled, the
\* ended run has processed both and recorded the failure of START in the
\* slot of its class.
C33_StartFailureSkipsCircuit ==
    StartFailed =>
       /\ hist.acts = << >>
       /\ ~Processed(STOP_NORMALLY)
       /\ ~Processed(STOP_CANCELED)
       /\ ~hist.broke
       /\ (eng.pc = "done" /\ hist.failed_event = START /\ task.result # "cancelled") =>
             /\ hist.processed = << START, CLEANUP, LOOP_RESULT >>
             /\ NonNullSlots = { ErrorSlotOf(StartFailureClass) }
             /\ res[ErrorSlotOf(StartFailureClass)] = StartFailureClass
             /\ task.result = StartFailureClass

\* both ways of failing START reach the end of a run with both events
\* processed: the reactor's failure ...
C33_ReactorFailureReached ==
    /\ StartFailed /\ eng.pc = "done"
    /\ hist.processed = << START, CLEANUP, LOOP_RESULT >>
    /\ res.event_reactor_error = "EventReactorError"

\* ... and the handler's
C33_HandlerFailureReached ==
    /\ StartFailed /\ eng.pc = "done"
    /\ hist.processed = << START, CLEANUP, LOOP_RESULT >>
    /\ res.handler_error = "EventHandlerError"
    /\ hist.invoked[1][1] = START


(***************************************************************************)
(* Claims on the pause-resume protocol of a run (IrqSpec, ControllerSpec). *)
(***************************************************************************)
\* C34: while a run is under way, whenever the mode is RUNNING and neither
\* a pause request nor a resume is pending the readiness signal is set, and
\* the circuit is blocked in wait_resume() only while the mode is PAUSE.
C34_BlocksOnlyWhilePaused ==
    /\ ( /\ task.st = "running"
         /\ irq.mode = "RUNNING"
         /\ ~irq.pause_requested
         /\ ~irq.resume_event_scheduled ) => irq.event
    /\ eng.pc = "await_resume" => irq.mode = "PAUSE"

\* What C34 excludes and the controller does (ControllerSpec): a
\* request_pause()/resume() pair consumed by consume_pause_request() and
\* perform_resume_event() one after the other leaves the mode RUNNING, no
\* intent pending and the signal cleared, and wait_resume() blocks.
C34_PairConsumedThenBlocked ==
    /\ hist.processed = << PAUSE, RESUME >>
    /\ irq = [mode |-> "RUNNING", event |-> FALSE,
              pause_requested |-> FALSE, resume_event_scheduled |-> FALSE]
    /\ eng.pc = "await_resume"

\* The signal of a controller is set by resume() and by nothing else: it is
\* unset from construction until the first resume().
C34_SignalSetByResumeOnly ==
    [][ (~irq.event /\ irq'.event) => Resume ]_vars


\* C35 as stated: a RESUME event is fired only when the mode is PAUSE, and
\* PAUSE and RESUME events alternate, starting with PAUSE: every RESUME
\* handed to process_event comes right after a PAUSE in the sequence of the
\* two.
C35_ResumeOnlyInPauseMode ==
    [][ hist'.processed = Append(hist.processed, RESUME) =>
           /\ irq.mode = "PAUSE"
           /\ Count(hist'.processed, RESUME) <= Count(hist'.processed, PAUSE) ]_vars

\* C35 amended: at the resume-check of a safe point a RESUME event is fired
\* exactly when the resume-scheduled intent is set, in PAUSE mode and in
\* RUNNING mode alike; the resume-check clears the intent and leaves mode
\* and signal as they are, the event is handed to process_event from there
\* and nowhere else, and the mode is RUNNING once RESUME has been processed.
C35_ResumeFiresOnIntent ==
    [][ /\ \A m \in { "PAUSE", "RUNNING" } :
              (IrqResume /\ irq.mode = m) =>
                 /\ (eng'.site = RESUME) <=> irq.resume_event_scheduled
                 /\ ~irq'.resume_event_scheduled
                 /\ irq'.mode = m
                 /\ irq'.event = irq.event
        /\ hist'.processed = Append(hist.processed, RESUME) =>
              /\ eng.site = RESUME
              /\ eng.pc = "call"
        /\ (eng.site # RESUME /\ eng'.site = RESUME) =>
              /\ IrqResume
              /\ irq.resume_event_scheduled
        /\ (eng.site = RESUME /\ eng'.pc = "irq_wait") => irq'.mode = "RUNNING" ]_vars

\* the resume-check has fired RESUME in PAUSE mode too: the circuit was
\* paused, woken by resume(), and processes RESUME in its next iteration
C35_ResumeFiredInPauseMode ==
    /\ eng.pc = "call"
    /\ eng.site = RESUME
    /\ irq.mode = "PAUSE"
    /\ hist.processed = << START, PAUSE >>

\* C35 witness: in a run that was never paused a resume() has fired a RESUME
\* event at the safe point, in RUNNING mode, and its handler was invoked.
C35_Witness ==
    /\ eng.pc = "irq_wait"
    /\ hist.processed = << START, RESUME >>
    /\ \E i \in 1..Len(hist.invoked) : hist.invoked[i][1] = RESUME
    /\ irq = [mode |-> "RUNNING", event |-> TRUE,
              pause_requested |-> FALSE, resume_event_scheduled |-> FALSE]


(***************************************************************************)
(* Claims on the terminal paths of a run (EngineSpec).                     *)
(***************************************************************************)
\* the handler of event e has been invoked in this run
Invoked(e) == \E i \in 1..Len(hist.invoked) : hist.invoked[i][1] = e

\* C36 as stated: in no run are both the STOP_NORMALLY handler and the
\* STOP_CANCELED handler invoked.
C36_OneStopHandlerPerRun ==
    ~(Invoked(STOP_NORMALLY) /\ Invoked(STOP_CANCELED))

\* C36 amended: STOP_CANCELED is processed only when a requested
\* cancellation is delivered at an await that suspends in the body of the
\* inner try (START, the circuit, STOP_NORMALLY), whether stop() was called
\* during that await or before it from inside the task; at most once, and
\* never before STOP_NORMALLY.  A cancellation pending or requested while
\* STOP_NORMALLY is awaited always diverts to STOP_CANCELED; both handlers
\* have been invoked only when it was delivered at the await of the
\* STOP_NORMALLY handler: STOP_CANCELED then follows STOP_NORMALLY at once.
C36_BothOnlyWhenCancelledInStopNormally ==
    [][ /\ (eng.site # STOP_CANCELED /\ eng'.site = STOP_CANCELED) =>
              /\ eng.pc \in Suspended
              /\ eng.site \in { START, STOP_NORMALLY, "none" }
              /\ task.must_cancel
              /\ ~task'.must_cancel
              /\ ~Processed(STOP_CANCELED)
        /\ ( /\ eng.site = STOP_NORMALLY
              /\ eng.pc \in Suspended
              /\ task.must_cancel
              /\ eng' # eng ) =>
              /\ eng'.pc = "call"
              /\ eng'.site = STOP_CANCELED
        /\ (Invoked(STOP_NORMALLY) /\ eng.site = STOP_NORMALLY
                                    /\ eng'.site = STOP_CANCELED) =>
              eng.pc = "await_handler"
        /\ hist'.processed = Append(hist.processed, STOP_NORMALLY) =>
              ~Processed(STOP_CANCELED)
        /\ (Invoked(STOP_NORMALLY) /\ Invoked(STOP_CANCELED))' =>
              \E i \in 1..(Len(hist'.processed) - 1) :
                 /\ hist'.processed[i] = STOP_NORMALLY
                 /\ hist'.processed[i + 1] = STOP_CANCELED ]_vars

\* C36 witness: a run cancelled while its STOP_NORMALLY handler was awaited
\* has ended with both handlers invoked, STOP_NORMALLY's first.
C36_Witness ==
    /\ eng.pc = "done"
    /\ hist.processed = << START, STOP_NORMALLY, STOP_CANCELED, CLEANUP, LOOP_RESULT >>
    /\ Invoked(STOP_NORMALLY)
    /\ Invoked(STOP_CANCELED)
    /\ task.result = "ok"


\* C37: every step of a run happens while the state is ACTIVE: the
\* coroutine stands between its first statement and its end only in ACTIVE,
\* and every step that hands an event to process_event, invokes a handler or
\* calls an action starts and ends in ACTIVE.  The coroutine is created by
\* start() alone, in the step from LOAD to ACTIVE.  TERMINATED is the state
\* of no run (transit_state assigns nothing, C2), so what start() does there
\* is evaluated in every reachable state: in TERMINATED, as in ACTIVE, it is
\* refused, creates no task and leaves the state.
C37_RunOnlyInActive ==
    [][ /\ eng'.pc \notin { "idle", "created", "done" } => current_state' = ACTIVE
        /\ (eng.pc = "idle" /\ eng'.pc # "idle") =>
              /\ current_state = LOAD
              /\ current_state' = ACTIVE
              /\ eng'.pc = "created"
        /\ \A s \in { ACTIVE, TERMINATED } :
              LET st == task_start(s, task) IN
              /\ st.err # "ok"
              /\ st.task = task
              /\ st.next = s
        /\ ( \/ hist'.processed # hist.processed
             \/ hist'.invoked # hist.invoked
             \/ hist'.acts # hist.acts
             \/ ev_step' # ev_step /\ eng.pc # "outer_finally"
             \/ act_step' # act_step /\ eng.pc # "outer_finally" ) =>
              /\ current_state = ACTIVE
              /\ current_state' = ACTIVE ]_vars

\* C37 witness: a run has gone from the START handler through two actions,
\* the second of which failed, to the LOOP_RESULT handler, which is awaited,
\* in ACTIVE.
C37_Witness ==
    /\ current_state = ACTIVE
    /\ eng.pc = "await_handler"
    /\ eng.site = LOOP_RESULT
    /\ hist.processed = << START, CLEANUP, LOOP_RESULT >>
    /\ Invoked(START)
    /\ Invoked(LOOP_RESULT)
    /\ hist.acts = << 1, 2 >>


(***************************************************************************)
(* Claims on start() of the handle (Spec).                                 *)
(***************************************************************************)
\* C38: once the handle has left LOAD, a start() fails with
\* InvalidStateError, creates no task and leaves the state as it is.
C38_SecondStartIsInvalidState ==
    current_state \in { ACTIVE, TERMINATED } =>
       LET s == task_start(current_state, task) IN
       /\ s.err = "InvalidStateError"
       /\ s.task = task
       /\ s.next = current_state

\* What holds of C38: a start() outside LOAD is refused, with the error of
\* the illegal edge, and creates no task; a task is created in LOAD only,
\* when there is none yet, so that one coroutine at most ever runs.
C38_AtMostOneTask ==
    [][ /\ current_state \in { ACTIVE, TERMINATED } =>
              LET s == task_start(current_state, task) IN
              /\ s.err = "AttributeError"
              /\ s.task = task
              /\ s.next = current_state
        /\ (task'.st = "pending" /\ task.st # "pending") =>
              /\ HandleStart
              /\ current_state = LOAD
              /\ current_state' = ACTIVE
              /\ task = NoTask
              /\ eng.pc = "idle"
        /\ (eng'.pc = "created" /\ eng.pc # "created") => eng.pc = "idle" ]_vars


(***************************************************************************)
(* Claims on failing and repeated requests (ControllerSpec, IrqSpec).      *)
(***************************************************************************)
\* C39 as stated: when processing of the PAUSE event fails inside a
\* consume_pause_request() called in RUNNING mode, pause-requested is false,
\* the mode is still RUNNING and the readiness signal is what it was.
C39_FailedPauseLeavesIntentFalse ==
    [][ (CtlPauseEventEnds("EventHandlerError") /\ irq.mode = "RUNNING") =>
           /\ ~irq'.pause_requested
           /\ irq'.mode = "RUNNING"
           /\ irq'.event = irq.event ]_vars

\* C39 amended: consume_pause_request() clears the intent before the PAUSE
\* event and, when processing of PAUSE fails, writes nothing more: mode,
\* signal and both intents are left as they are at the failure.  While
\* PAUSE is processed only request_pause() and resume() of the driver write
\* the controller, so at the failure the mode is the one of the call and
\* pause-requested is false unless request_pause() was called meanwhile.
C39_FailedPauseWritesNothing ==
    [][ /\ CtlConsumePauseRequest =>
              /\ irq' = [irq EXCEPT !.pause_requested = FALSE]
              /\ eng'.pc = "pause_event"
        /\ CtlPauseEventEnds("EventHandlerError") =>
              /\ irq' = irq
              /\ hist' = hist
              /\ last' = CtlEnded("consume_pause_request", "EventHandlerError")
        /\ (eng.pc = "pause_event" /\ eng'.pc = "pause_event" /\ irq' # irq) =>
              /\ irq'.mode = irq.mode
              /\ \/ CtlRequestPause /\ irq' = [irq EXCEPT !.pause_requested = TRUE]
                 \/ CtlResume /\ irq'.pause_requested = irq.pause_requested ]_vars

\* C39 witness: after a resume() had set the signal, consume_pause_request()
\* was left by the failure of PAUSE with the request consumed, the mode
\* RUNNING and the signal still set.
C39_Witness ==
    /\ eng.pc = "idle"
    /\ last = CtlEnded("consume_pause_request", "EventHandlerError")
    /\ hist.processed = << PAUSE >>
    /\ irq = [mode |-> "RUNNING", event |-> TRUE,
              pause_requested |-> FALSE, resume_event_scheduled |-> TRUE]


\* C40: whatever number of request_pause() calls set the intent, the
\* pause-check of the next safe point fires one PAUSE event and consumes
\* the intent, and fires none when no pause is requested; likewise one
\* RESUME event at the resume-check for any number of resume() calls.
C40_PendingIntentsFireOnce ==
    [][ /\ IrqPause =>
              IF irq.pause_requested
              THEN eng'.pc = "call" /\ eng'.site = PAUSE /\ ~irq'.pause_requested
              ELSE eng'.pc = "irq_resume" /\ irq' = irq
        /\ IrqResume =>
              IF irq.resume_event_scheduled
              THEN eng'.pc = "call" /\ eng'.site = RESUME /\ ~irq'.resume_event_scheduled
              ELSE eng'.pc = "irq_wait" /\ irq' = irq ]_vars

\* What holds of C40: the intents are flags, so that a repeated
\* request_pause() or resume() changes nothing; the resume-check fires one
\* RESUME event for a set intent, clears it, and fires none otherwise; the
\* pause-check fires no PAUSE event at all and leaves the circuit when a
\* pause is requested.
C40_RepeatedRequestsChangeNothing ==
    [][ /\ request_pause(request_pause(irq)) = request_pause(irq)
        /\ resume(resume(irq)) = resume(irq)
        /\ (Pause /\ irq.pause_requested) => irq' = irq
        /\ (Resume /\ irq.resume_event_scheduled /\ irq.event) => irq' = irq
        /\ IrqResume =>
              IF irq.resume_event_scheduled
              THEN eng'.pc = "call" /\ eng'.site = RESUME /\ ~irq'.resume_event_scheduled
              ELSE eng'.pc = "irq_wait" /\ irq' = irq
        /\ (IrqPause /\ irq.pause_requested) =>
              /\ eng'.site = CLEANUP
              /\ eng'.exc = "CircuitError"
              /\ irq' = irq
        /\ ~Processed(PAUSE) ]_vars

====
